---- MODULE Spec2Model ----
(***************************************************************************)
(* Model of the Polymarket cricket scripts (cricket_odds3.py,              *)
(* cricket_odds4.py) and of the odds aggregator (odds.py).                 *)
(*                                                                         *)
(* Spec          : main() of cricket_odds3.py from the return of           *)
(*                 search_cricket_markets() on: sort, initial scan,        *)
(*                 continuous monitoring loop, final summaries.            *)
(* LiveSpec      : Spec with weak fairness on the steps of main().         *)
(* TermSpec      : main() started with any --search argument, on the plain *)
(*                 lists.                                                  *)
(* NotifySpec    : main() with any state of the Discord webhook, on the    *)
(*                 plain lists.                                            *)
(* DiscoverySpec : search_cricket_markets() (identical in both scripts).   *)
(* RerunSpec     : search_cricket_markets() run twice on one data source.  *)
(* FindSpec      : find_match on its own.                                  *)
(* OddsSpec      : IPLOddsAnalyzer.run_analysis of odds.py.                *)
(*                                                                         *)
(* Prices are kept in hundredths (0.65 is 65), so price * 100 with one     *)
(* decimal is exact and price > 0.60 is v > 60.                            *)
(***************************************************************************)
EXTENDS Integers, Sequences, FiniteSets, TLC

----------------------------------------------------------------------------
(* Bounds of the model *)

\* number of distinct market identifiers the data source knows
MaxMarkets == 2

\* the alert threshold of the comparisons "price > 0.60", in hundredths
Threshold == 60

Ids == 1..MaxMarkets

----------------------------------------------------------------------------
(* JSON values as the scripts see them *)

RawNone == [t |-> "None"]
RawList(s) == [t |-> "list", v |-> s]
RawNum(n) == [t |-> "num", v |-> n]
\* a str field; json is what json.loads makes of it
RawStr(j) == [t |-> "str", json |-> j]
JSONDecodeError == [t |-> "JSONDecodeError"]
\* the empty str, which json.loads rejects as well
EmptyStr == [t |-> "str", json |-> JSONDecodeError, empty |-> TRUE]
\* what json.loads makes of a JSON string: a str, kept as its characters
Str(chars) == [t |-> "string", v |-> chars]
\* a JSON object: a dict, kept as its keys in order
Dict(keys) == [t |-> "dict", v |-> keys]

\* items of a price list and keys of a dict: a number or numeric string, a
\* non-numeric string, or an integer beyond the range of float
Num(n) == [t |-> "num", v |-> n]
Text == [t |-> "text"]
Huge == [t |-> "huge"]

\* texts are sequences of characters
DigitChars == <<"0", "1", "2", "3", "4", "5", "6", "7", "8", "9">>
IsDigit(c) == \E k \in 1..Len(DigitChars) : DigitChars[k] = c
DigitValue(c) == (CHOOSE k \in 1..Len(DigitChars) : DigitChars[k] = c) - 1

\* Python truth value of a JSON value
Truthy(x) ==
    CASE x.t = "None" -> FALSE
      [] x.t \in {"list", "string", "dict"} -> Len(x.v) > 0
      [] x.t = "num"  -> x.v # 0
      [] x.t = "str"  -> x # EmptyStr
      [] OTHER        -> FALSE

\* float(p): the value, or the exception it raises
FloatOf(p) ==
    CASE p.t = "num"  -> [exc |-> "none", v |-> p.v]
      [] p.t = "text" -> [exc |-> "ValueError", v |-> 0]
      [] p.t = "huge" -> [exc |-> "OverflowError", v |-> 0]
      [] OTHER        -> [exc |-> "TypeError", v |-> 0]

\* [float(p) for p in x]: the list, or the first exception raised.  A list
\* yields its items, a dict its keys and a str its characters, of which only
\* the digits are numbers; no other value can be iterated
FloatList(x) ==
    IF x.t \notin {"list", "string", "dict"} THEN [exc |-> "TypeError", val |-> <<>>]
    ELSE LET items == IF x.t = "string"
                      THEN [k \in 1..Len(x.v) |->
                               IF IsDigit(x.v[k]) THEN Num(100 * DigitValue(x.v[k]))
                               ELSE Text]
                      ELSE x.v
             fs == [k \in 1..Len(items) |-> FloatOf(items[k])]
             bad == {k \in 1..Len(items) : fs[k].exc # "none"}
         IN IF bad = {} THEN [exc |-> "none", val |-> [k \in 1..Len(items) |-> fs[k].v]]
            ELSE LET first == CHOOSE k \in bad : \A k2 \in bad : k <= k2
                 IN [exc |-> fs[first].exc, val |-> <<>>]

----------------------------------------------------------------------------
(* Text of a probability breakdown *)

EmptyText == [t |-> "empty"]
NAText == [t |-> "N/A"]
\* sep.join(f"  - {outcomes[i]}: {price * 100:.1f}%" ...)
ProbText(sep, outcomes, prices) ==
    [t |-> "lines", sep |-> sep,
     lines |-> [k \in 1..Len(prices) |-> <<outcomes[k], prices[k]>>]]

\* any(price > 0.60)
SomePriceAbove(prices) == \E k \in 1..Len(prices) : prices[k] > Threshold

----------------------------------------------------------------------------
(* Market records *)

\* the question text of market id ("MI vs CSK <id>"), a later wording of it
\* ("CSK vs MI <id>"), and the "N/A" default
Question(id) ==
    <<"M", "I", " ", "v", "s", " ", "C", "S", "K", " ", DigitChars[id + 1]>>
Renamed(id) ==
    <<"C", "S", "K", " ", "v", "s", " ", "M", "I", " ", DigitChars[id + 1]>>
NAQuestion == <<"N", "/", "A">>

\* datetime.now(timezone.utc) of line 172, on the scale of GameStartTime
Now == 100

\* gameStartTime: the key is absent, or its value is a time with a UTC offset
\* ("iso"), a time without one ("naive"), or a text fromisoformat rejects
NoStart == [t |-> "absent", v |-> 0]
BadStart == [t |-> "bad", v |-> 0]
NaiveStart == [t |-> "naive", v |-> Now - 10]

\* gameStartTime of market id: the first market has none, the others have
\* distinct times that line 216 lets through (at or after now)
GameStartTime(id) == IF id = 1 THEN NoStart ELSE [t |-> "iso", v |-> Now + 10 * id]

Labels == <<"Yes", "No">>

\* (outcomes, outcomePrices) pairs as the listing / detail endpoint delivers them
ScanQuotes ==
    { <<RawStr(RawList(Labels)), RawStr(RawList(<<Num(65), Num(35)>>))>>,
      <<RawList(Labels),         RawList(<<Num(35), Num(61)>>)>>,
      <<RawStr(RawList(Labels)), RawStr(RawList(<<Num(60), Num(40)>>))>>,
      <<RawStr(RawList(Labels)), RawStr(RawList(<<Num(55), Num(45)>>))>>,
      <<RawNone,                 RawStr(RawList(<<Num(65), Num(35)>>))>>,
      <<RawStr(RawList(Labels)), RawStr(RawList(<<Num(65)>>))>>,
      <<RawStr(Str(<<"a", "b">>)), RawStr(Str(<<"6", "5">>))>>,
      <<RawStr(Str(<<"a", "b">>)), RawStr(RawList(<<Num(65)>>))>>,
      <<RawStr(RawList(Labels)), RawStr(Dict(<<Num(65), Num(35)>>))>>,
      <<RawStr(RawList(Labels)), RawStr(JSONDecodeError)>>,
      <<RawStr(RawList(Labels)), EmptyStr>>,
      <<RawStr(RawList(Labels)), RawList(<<Text, Num(35)>>)>>,
      <<RawStr(RawList(Labels)), RawNum(5)>>,
      <<RawStr(RawList(Labels)), RawNone>> }

PollQuotes ==
    { <<RawStr(RawList(Labels)), RawStr(RawList(<<Num(70), Num(30)>>))>>,
      <<RawStr(RawList(Labels)), RawStr(RawList(<<Num(60), Num(40)>>))>>,
      <<RawStr(RawList(Labels)), RawStr(RawList(<<Num(58), Num(42)>>))>>,
      <<RawNone,                 RawStr(RawList(<<Num(70), Num(30)>>))>>,
      <<RawStr(RawList(Labels)), RawStr(RawList(<<Num(70)>>))>>,
      <<RawStr(Str(<<"a", "b">>)), RawStr(Str(<<"6", "5">>))>>,
      <<RawStr(RawList(Labels)), RawStr(RawNum(5))>>,
      <<RawStr(RawList(Labels)), RawStr(JSONDecodeError)>>,
      <<RawStr(RawNum(5)),       RawStr(RawList(<<Num(58), Num(42)>>))>> }

Market(id, q, quote) ==
    [id |-> id, question |-> q, gameStartTime |-> GameStartTime(id),
     outcomes |-> quote[1], outcomePrices |-> quote[2]]

\* lines 224 and 231 let through an unparsable gameStartTime and one without
\* a UTC offset: the record that holds lists has such a gameStartTime
OtherStart(id) == IF id = 1 THEN NaiveStart ELSE BadStart
StartedAt(market, start) == [market EXCEPT !.gameStartTime = start]

\* what search_cricket_markets() makes of the listing record of market id
\* when the id stays: a record with an offset-carrying gameStartTime passed
\* line 216, or kept the gameStartTime of the listing because the detail
\* request raised (line 231)
ListedMarkets(id) ==
    {IF quote[1].t = "list"
     THEN StartedAt(Market(id, Question(id), quote), OtherStart(id))
     ELSE Market(id, Question(id), quote) : quote \in ScanQuotes}

\* lines 205-206 copy every key of the detail answer into the record, the id
\* and the gameStartTime too: the record of market id, with a price above or
\* below 0.60, under the id of another market, with a gameStartTime that
\* passes line 216 or one that does not parse (line 224)
Relabelled(id, other) ==
    {[Market(id, Question(id), quote) EXCEPT
         !.id = other,
         !.gameStartTime = IF GameStartTime(other).t = "iso"
                           THEN [t |-> "iso", v |-> Now + 10 * id]
                           ELSE BadStart] :
        quote \in {<<RawStr(RawList(Labels)), RawStr(RawList(<<Num(65), Num(35)>>))>>,
                   <<RawStr(RawList(Labels)), RawStr(RawList(<<Num(55), Num(45)>>))>>}}

\* the sequences of up to n records, each of another listed market (line 184
\* lets a listed id through once) and under its own id, but that the detail
\* answer of the first market may carry the id of the second
RECURSIVE SeqsOver(_)
SeqsOver(n) ==
    IF n = 0 THEN {<<>>}
    ELSE LET shorter == SeqsOver(n - 1)
             records == UNION {ListedMarkets(id) : id \in Ids} \cup Relabelled(1, 2)
         IN shorter \cup
            {l \in {Append(x, m) : x \in {y \in shorter : Len(y) = n - 1},
                                   m \in records} :
                \A i \in 1..(n - 1) : l[i].question # l[n].question}

\* what search_cricket_markets() can hand to main().  Line 235 returns
\* started_matches, then the records of unique_markets whose id is not in
\* started_matches.  A record whose detail answer was merged and whose
\* gameStartTime passed line 216 is in started_matches (line 217); every
\* other record can be in unique_markets (lines 224, 227, 231)
DiscoveredLists ==
    LET started(m) == m.gameStartTime.t = "iso"
        merged(m) == m.question # Question(m.id)
    IN {l \in SeqsOver(MaxMarkets) :
           \E s \in 0..Len(l) :
               /\ \A i \in 1..s : started(l[i])
               /\ \A j \in (s + 1)..Len(l) :
                      /\ ~(merged(l[j]) /\ started(l[j]))
                      /\ \A i \in 1..s : l[i].id # l[j].id}

\* what get_market_details(id) can return in a poll: None, or a detail record
DetailResponses(id) ==
    {RawNone}
    \cup {Market(id, Question(id), quote) : quote \in PollQuotes}
    \cup {Market(id, Renamed(id), quote) :
            quote \in {<<RawStr(RawList(Labels)), RawStr(RawList(<<Num(70), Num(30)>>))>>,
                       <<RawStr(RawList(Labels)), RawStr(RawList(<<Num(58), Num(42)>>))>>}}

----------------------------------------------------------------------------
(* Text matching of search_cricket_markets *)

\* texts hold the characters U+0000 .. U+00FF.  A printable ASCII character is
\* written as itself, tab, line feed, form feed and carriage return as "\t",
\* "\n", "\f" and "\r", and every other character by its code point, as in
\* "U+00C9"; these are the characters str.lower() changes, and what it makes
\* of them
UpperChars == <<"A", "B", "C", "D", "E", "F", "G", "H", "I", "J", "K", "L", "M",
                "N", "O", "P", "Q", "R", "S", "T", "U", "V", "W", "X", "Y", "Z",
                "U+00C0", "U+00C1", "U+00C2", "U+00C3", "U+00C4", "U+00C5",
                "U+00C6", "U+00C7", "U+00C8", "U+00C9", "U+00CA", "U+00CB",
                "U+00CC", "U+00CD", "U+00CE", "U+00CF", "U+00D0", "U+00D1",
                "U+00D2", "U+00D3", "U+00D4", "U+00D5", "U+00D6", "U+00D8",
                "U+00D9", "U+00DA", "U+00DB", "U+00DC", "U+00DD", "U+00DE">>
LowerChars == <<"a", "b", "c", "d", "e", "f", "g", "h", "i", "j", "k", "l", "m",
                "n", "o", "p", "q", "r", "s", "t", "u", "v", "w", "x", "y", "z",
                "U+00E0", "U+00E1", "U+00E2", "U+00E3", "U+00E4", "U+00E5",
                "U+00E6", "U+00E7", "U+00E8", "U+00E9", "U+00EA", "U+00EB",
                "U+00EC", "U+00ED", "U+00EE", "U+00EF", "U+00F0", "U+00F1",
                "U+00F2", "U+00F3", "U+00F4", "U+00F5", "U+00F6", "U+00F8",
                "U+00F9", "U+00FA", "U+00FB", "U+00FC", "U+00FD", "U+00FE">>

LowerOf ==
    [c \in {UpperChars[k] : k \in 1..Len(UpperChars)} |->
        LowerChars[CHOOSE k \in 1..Len(UpperChars) : UpperChars[k] = c]]

\* str.lower()
LowerChar(c) == IF c \in DOMAIN LowerOf THEN LowerOf[c] ELSE c
Lower(text) == [k \in 1..Len(text) |-> LowerChar(text[k])]

\* `kw in text`
Contains(text, kw) ==
    \E k \in 0..(Len(text) - Len(kw)) : SubSeq(text, k + 1, k + Len(kw)) = kw

\* " ".join([question, slug, eventSlug]).lower()
MarketText(market) ==
    Lower(market.question \o <<" ">> \o market.slug \o <<" ">> \o market.eventSlug)

\* lines 147-149
CricketKeywords ==
    << <<"v", "s">>,
       <<"k", "n", "i", "g", "h", "t", " ", "r", "i", "d", "e", "r", "s">>,
       <<"s", "u", "p", "e", "r", " ", "k", "i", "n", "g", "s">>,
       <<"c", "a", "p", "i", "t", "a", "l", "s">>,
       <<"i", "n", "d", "i", "a", "n", "s">>,
       <<"r", "o", "y", "a", "l", "s">>,
       <<"s", "u", "n", "r", "i", "s", "e", "r", "s">>,
       <<"k", "i", "n", "g", "s">>,
       <<"t", "i", "t", "a", "n", "s">>,
       <<"s", "u", "p", "e", "r", " ", "g", "i", "a", "n", "t", "s">>,
       <<"i", "p", "l">>,
       <<"c", "r", "i", "c", "k", "e", "t">>,
       <<"t", "2", "0">> >>

\* line 159: any(keyword in market_text for keyword in cricket_keywords)
IsCricket(market) ==
    \E k \in 1..Len(CricketKeywords) : Contains(MarketText(market), CricketKeywords[k])

\* lines 151-160: the listing filtered for cricket matches, order kept
CricketOnly(markets) == SelectSeq(markets, IsCricket)

----------------------------------------------------------------------------
(* find_match *)

\* market.get(name, "")
Field(market, name) == IF name \in DOMAIN market THEN market[name] ELSE <<>>

\* " ".join([question, slug, eventSlug]).lower() of find_match
FindText(market) ==
    Lower(Field(market, "question") \o <<" ">> \o Field(market, "slug")
          \o <<" ">> \o Field(market, "eventSlug"))

VsSeparator == <<" ", "v", "s", " ">>

\* str.split(sep): the parts between the occurrences of sep, left to right
RECURSIVE Split(_, _)
Split(text, sep) ==
    IF ~Contains(text, sep) THEN <<text>>
    ELSE LET k == CHOOSE i \in 0..(Len(text) - Len(sep)) :
                      /\ SubSeq(text, i + 1, i + Len(sep)) = sep
                      /\ \A j \in 0..(i - 1) : SubSeq(text, j + 1, j + Len(sep)) # sep
         IN <<SubSeq(text, 1, k)>> \o Split(SubSeq(text, k + Len(sep) + 1, Len(text)), sep)

\* str.isspace() of one character: tab, line feed, vertical tab, form feed,
\* carriage return, U+001C .. U+001F, space, U+0085 and the no-break space
Whitespace == {"\t", "\n", "U+000B", "\f", "\r", "U+001C", "U+001D", "U+001E",
               "U+001F", " ", "U+0085", "U+00A0"}

\* str.strip()
RECURSIVE Strip(_)
Strip(text) ==
    IF text = <<>> THEN <<>>
    ELSE IF Head(text) \in Whitespace THEN Strip(Tail(text))
    ELSE IF text[Len(text)] \in Whitespace THEN Strip(SubSeq(text, 1, Len(text) - 1))
    ELSE text

\* `market in matching_markets`: equality of dicts
InList(market, markets) == \E k \in 1..Len(markets) : markets[k] = market

\* variant: the team check matches when either team is named
BothTeamsEither(text, team1, team2) == Contains(text, team1) \/ Contains(text, team2)

\* line 286: `team1 in market_text and team2 in market_text`
BothTeams(text, team1, team2) == Contains(text, team1) /\ Contains(text, team2)

\* lines 269-288: one iteration of the loop; term is the lower-cased search term
MatchStep(matching, market, term) ==
    LET market_text == FindText(market)
        direct == IF Contains(market_text, term) THEN Append(matching, market)
                  ELSE matching
    IN IF Contains(term, VsSeparator)
       THEN LET teams == Split(term, VsSeparator)
                team1 == Strip(teams[1])
                team2 == Strip(teams[2])
            IN IF BothTeams(market_text, team1, team2) /\ ~InList(market, direct)
               THEN Append(direct, market) ELSE direct
       ELSE direct

RECURSIVE MatchLoop(_, _, _)
MatchLoop(matching, markets, term) ==
    IF markets = <<>> THEN matching
    ELSE MatchLoop(MatchStep(matching, Head(markets), term), Tail(markets), term)

\* find_match(markets, search_term)
find_match(markets, search_term) == MatchLoop(<<>>, markets, Lower(search_term))

\* sys.argv: no --search argument, or the term given with it
NoTerm == [given |-> FALSE, text |-> <<>>]
Term(text) == [given |-> TRUE, text |-> text]

\* the terms a run of main() is started with
SearchTerms ==
    { NoTerm,
      Term(<<>>),
      Term(<<"c", "s", "k", " ", "1">>),
      Term(<<"C", "S", "K", " ", "v", "s", " ", "M", "I">>),
      Term(<<"r", "c", "b">>) }

\* variant: without the fallback to the full list
NoFallback(found, all) == found

\* lines 427-430: `if not matching_markets: matching_markets = cricket_markets`
Fallback(found, all) == IF found = <<>> THEN all ELSE found

\* lines 424-432: the list main() goes on with
Filtered(markets, term) ==
    IF term.given /\ term.text # <<>>
    THEN Fallback(find_match(markets, term.text), markets)
    ELSE markets

\* matching_markets is the cricket_markets list itself: it was assigned at
\* line 432, or at line 430 after find_match returned an empty list
SameList(markets, term) ==
    \/ ~(term.given /\ term.text # <<>>)
    \/ /\ find_match(markets, term.text) = <<>>
       /\ Filtered(markets, term) # <<>>

----------------------------------------------------------------------------
(* Records and responses of the Gamma API in discovery *)

\* upper bound on the number of records all requests of one discovery deliver
MaxRecords == 4

\* the number of reference ids of line 111
NumReferenceIds == 4

SearchIds == {1, 2}

SearchRecord(id, question, eventSlug, closed) ==
    [id |-> id, question |-> question, slug |-> <<>>, eventSlug |-> eventSlug,
     closed |-> closed, gameStartTime |-> NoStart]

\* market 1: "IPL 1" open and closed, and "Vote 1"; the other markets: "IPL <id>"
\* and "Vote <id>" with the event slug "T20"
SearchRecords ==
    { SearchRecord(1, <<"I", "P", "L", " ", "1">>, <<>>, FALSE),
      SearchRecord(1, <<"I", "P", "L", " ", "1">>, <<>>, TRUE),
      SearchRecord(1, <<"V", "o", "t", "e", " ", "1">>, <<>>, FALSE) }
    \cup UNION {{ SearchRecord(id, <<"I", "P", "L", " ", DigitChars[id + 1]>>, <<>>, FALSE),
                  SearchRecord(id, <<"V", "o", "t", "e", " ", DigitChars[id + 1]>>,
                               <<"T", "2", "0">>, FALSE) }
                : id \in SearchIds \ {1}}

RECURSIVE RecordLists(_)
RecordLists(n) ==
    IF n = 0 THEN {<<>>}
    ELSE RecordLists(n - 1)
         \cup {Append(l, r) : l \in {x \in RecordLists(n - 1) : Len(x) = n - 1},
                              r \in SearchRecords}

\* gameStartTime of a detail record: absent, unparsable, before, at or after
\* now, and a time before now written without a UTC offset
DetailStarts ==
    {NoStart, BadStart, NaiveStart, [t |-> "iso", v |-> Now - 10],
     [t |-> "iso", v |-> Now], [t |-> "iso", v |-> Now + 10]}

\* a detail record with the keys closed and, unless absent, gameStartTime
Detail(start, closed) ==
    IF start = NoStart THEN [closed |-> closed]
    ELSE [gameStartTime |-> start, closed |-> closed]

\* what the detail endpoint can answer: the keys may also include a question
\* that differs from the listing's, or an id
DetailRecords ==
    {Detail(start, FALSE) : start \in DetailStarts}
    \cup {Detail(NoStart, TRUE), Detail([t |-> "iso", v |-> Now + 10], TRUE)}
    \cup {[question |-> <<"I", "P", "L", " ", "f", "i", "n", "a", "l">>,
           gameStartTime |-> [t |-> "iso", v |-> Now + 10], closed |-> FALSE]}
    \cup {[id |-> id, closed |-> FALSE] : id \in SearchIds}

\* lines 205-206: `for key, value in market_details.items(): market[key] = value`
Merged(market, market_details) ==
    [key \in DOMAIN market \cup DOMAIN market_details |->
        IF key \in DOMAIN market_details THEN market_details[key] ELSE market[key]]

----------------------------------------------------------------------------
(* Parsing of outcomes / outcomePrices *)

\* main(), initial scan: outcome_prices, or the exception that leaves the try
ScanPrices(raw) ==
    IF ~Truthy(raw) THEN [exc |-> "none", val |-> <<>>]
    ELSE LET loaded == IF raw.t = "str" THEN raw.json ELSE raw
         IN IF loaded.t = "JSONDecodeError" THEN [exc |-> "none", val |-> <<>>]
            ELSE LET fl == FloatList(loaded)
                 IN IF fl.exc = "ValueError" THEN [exc |-> "none", val |-> <<>>]
                    ELSE fl

\* main(), initial scan and poll: outcomes (a JSON value, [] when unparsable)
ParseOutcomes(raw) ==
    IF ~Truthy(raw) THEN RawList(<<>>)
    ELSE LET loaded == IF raw.t = "str" THEN raw.json ELSE raw
         IN IF loaded.t = "JSONDecodeError" THEN RawList(<<>>) ELSE loaded

\* main(), poll: latest_outcome_prices, or the exception that leaves the try
PollPrices(raw) ==
    LET iterable_source ==
            CASE raw.t = "str"  -> IF raw.json.t = "JSONDecodeError"
                                   THEN RawList(<<>>) ELSE raw.json
              [] raw.t = "list" -> raw
              [] OTHER          -> RawList(<<>>)
    IN IF ~Truthy(iterable_source) THEN [exc |-> "none", val |-> <<>>]
       ELSE LET fl == FloatList(iterable_source)
            IN IF fl.exc \in {"ValueError", "TypeError"}
               THEN [exc |-> "none", val |-> <<>>]
               ELSE fl

\* "if outcomes and outcome_prices and len(outcomes) == len(outcome_prices)":
\* the breakdown text and the high-probability flag, or the TypeError of len()
\* and the KeyError of outcomes[i].  A list, a str and a dict have a length;
\* outcomes[i] is an item of a list, a character of a str, and of a dict the
\* value of the key i, which a JSON object does not have
CheckProbabilities(sep, default, outcomes, prices) ==
    IF Truthy(outcomes) /\ Len(prices) > 0
    THEN IF outcomes.t \notin {"list", "string", "dict"}
         THEN [exc |-> "TypeError", text |-> default, high |-> FALSE]
         ELSE IF Len(outcomes.v) = Len(prices)
              THEN IF outcomes.t = "dict"
                   THEN [exc |-> "KeyError", text |-> default, high |-> FALSE]
                   ELSE [exc |-> "none", text |-> ProbText(sep, outcomes.v, prices),
                         high |-> SomePriceAbove(prices)]
              ELSE [exc |-> "none", text |-> default, high |-> FALSE]
    ELSE [exc |-> "none", text |-> default, high |-> FALSE]

\* the scan of one market record: lines 457-498
ScanOf(market) ==
    LET pr == ScanPrices(market.outcomePrices)
        outcomes == ParseOutcomes(market.outcomes)
    IN IF pr.exc # "none"
       THEN [exc |-> pr.exc, text |-> EmptyText, high |-> FALSE, outcomes |-> outcomes]
       ELSE LET c == CheckProbabilities("\n", EmptyText, outcomes, pr.val)
            IN [exc |-> c.exc, text |-> c.text, high |-> c.high, outcomes |-> outcomes]

\* the re-parse of one detail record in a poll: lines 540-584
PollOf(latest) ==
    LET pr == PollPrices(latest.outcomePrices)
    IN IF pr.exc # "none" THEN [exc |-> pr.exc, text |-> NAText, high |-> FALSE]
       ELSE CheckProbabilities("\\n", NAText, ParseOutcomes(latest.outcomes), pr.val)

----------------------------------------------------------------------------
(* Messages handed to send_discord_alert *)

NoMessage == [title |-> "unset"]
AlertMessage(question, start, text) ==
    [title |-> "High Probability Alert", market |-> question,
     start |-> start, probabilities |-> text]
\* variant: the current breakdown reported as the initial one as well
ResolvedMessageCurrentOnly(question, initial, current) ==
    [title |-> "Probability Resolved", market |-> question,
     initial |-> current, current |-> current]
ResolvedMessage(question, initial, current) ==
    [title |-> "Probability Resolved", market |-> question,
     initial |-> initial, current |-> current]

\* the default "9999-12-31T00:00:00Z" of line 437 and datetime.max of line 441
DefaultStart == 99991231
DatetimeMax == 99991232

\* get_start_time: the sort key of a market. The default and a time written
\* with a UTC offset give an aware datetime, a time written without one a
\* naive datetime, and anything fromisoformat rejects the naive datetime.max
StartKey(market) ==
    LET start == market.gameStartTime
    IN CASE start.t = "absent" -> [aware |-> TRUE, v |-> DefaultStart]
         [] start.t = "iso"    -> [aware |-> TRUE, v |-> start.v]
         [] start.t = "naive"  -> [aware |-> FALSE, v |-> start.v]
         [] OTHER              -> [aware |-> FALSE, v |-> DatetimeMax]

\* key(a) < key(b) raises TypeError when one datetime is naive and the other
\* aware
Comparable(a, b) == StartKey(a).aware = StartKey(b).aware
Before(a, b) == StartKey(a).v < StartKey(b).v

Reverse(s) == [k \in 1..Len(s) |-> s[Len(s) + 1 - k]]

\* list.sort of CPython for a list of fewer than 64 items: the run the list
\* begins with is found (count_run) and the other items are inserted into it
\* one by one (binarysort). A comparison that raises ends the sort and leaves
\* the items where they are at that moment, which depends on the version of
\* count_run.
RECURSIVE RunEnd(_, _, _)
RunEnd(s, descending, i) ==
    IF i > Len(s) THEN [exc |-> "none", n |-> Len(s)]
    ELSE IF ~Comparable(s[i], s[i - 1]) THEN [exc |-> "TypeError", n |-> i - 1]
    ELSE IF Before(s[i], s[i - 1]) = descending THEN RunEnd(s, descending, i + 1)
    ELSE [exc |-> "none", n |-> i - 1]

\* the first n items of s reversed in place
ReverseSlice(s, n) == Reverse(SubSeq(s, 1, n)) \o SubSeq(s, n + 1, Len(s))

\* count_run of CPython up to 3.12: the first comparison tells whether the run
\* ascends or strictly descends, and a descending run is reversed at its end
CountRun(s) ==
    IF ~Comparable(s[2], s[1])
    THEN [exc |-> "TypeError", s |-> s, n |-> 1]
    ELSE LET descending == Before(s[2], s[1])
             run == RunEnd(s, descending, 3)
         IN [exc |-> run.exc, n |-> run.n,
             s |-> IF run.exc = "none" /\ descending THEN ReverseSlice(s, run.n)
                   ELSE s]

\* count_run of CPython from 3.13 on, descending part: a descending run may
\* hold equal neighbours; each group of equal items (the last neq + 1 of the
\* first n) is reversed as soon as it ends, so that the reversal of the whole
\* run puts it back in order
RECURSIVE DescendingRun(_, _, _)
DescendingRun(s, n, neq) ==
    LET reversed == IF neq = 0 THEN s
                    ELSE SubSeq(s, 1, n - neq - 1) \o Reverse(SubSeq(s, n - neq, n))
                         \o SubSeq(s, n + 1, Len(s))
    IN IF n >= Len(s) THEN [exc |-> "none", s |-> reversed, n |-> n]
       ELSE IF ~Comparable(s[n + 1], s[n]) THEN [exc |-> "TypeError", s |-> s, n |-> n]
       ELSE IF Before(s[n + 1], s[n]) THEN DescendingRun(reversed, n + 1, 0)
       ELSE IF Before(s[n], s[n + 1]) THEN [exc |-> "none", s |-> reversed, n |-> n]
       ELSE DescendingRun(s, n + 1, neq + 1)

\* count_run of CPython from 3.13 on: the ascending run the list begins with
\* is taken if it rises somewhere; a run of equal items before a smaller one
\* is reversed and begins a descending run, which is reversed at its end and
\* then extended by the items that ascend from it
CountRunRelaxed(s) ==
    LET up == RunEnd(s, FALSE, 2)
    IN IF up.exc # "none" \/ up.n = Len(s) THEN [exc |-> up.exc, s |-> s, n |-> up.n]
       ELSE IF up.n > 1 /\ Before(s[1], s[up.n]) THEN [exc |-> "none", s |-> s, n |-> up.n]
       ELSE LET down == DescendingRun(IF up.n > 1 THEN ReverseSlice(s, up.n) ELSE s,
                                      up.n + 1, 0)
            IN IF down.exc # "none" THEN down
               ELSE LET ascending == ReverseSlice(down.s, down.n)
                        more == RunEnd(ascending, FALSE, down.n + 1)
                    IN [exc |-> more.exc, s |-> ascending, n |-> more.n]

RECURSIVE BinaryPosition(_, _, _, _)
BinaryPosition(s, pivot, l, r) ==
    IF l >= r THEN [exc |-> "none", at |-> l]
    ELSE LET p == l + ((r - l) \div 2)
         IN IF ~Comparable(pivot, s[p]) THEN [exc |-> "TypeError", at |-> l]
            ELSE IF Before(pivot, s[p]) THEN BinaryPosition(s, pivot, l, p)
            ELSE BinaryPosition(s, pivot, p + 1, r)

RECURSIVE BinarySort(_, _)
BinarySort(s, start) ==
    IF start > Len(s) THEN s
    ELSE LET pos == BinaryPosition(s, s[start], 1, start)
         IN IF pos.exc # "none" THEN s
            ELSE BinarySort(SubSeq(s, 1, pos.at - 1) \o <<s[start]>>
                            \o SubSeq(s, pos.at, start - 1)
                            \o SubSeq(s, start + 1, Len(s)), start + 1)

\* lines 435-446: matching_markets.sort(key=get_start_time, reverse=True), the
\* list being reversed before and after the sort; a TypeError is caught and
\* logged.  relaxed tells which count_run the interpreter has; the two differ
\* only in the order an aborted sort leaves
SortByStart(ms, relaxed) ==
    IF Len(ms) < 2 THEN ms
    ELSE LET s == Reverse(ms)
             run == IF relaxed THEN CountRunRelaxed(s) ELSE CountRun(s)
         IN IF run.exc # "none" THEN Reverse(run.s)
            ELSE Reverse(BinarySort(run.s, run.n + 1))

\* keys of the monitoring_markets dict, in insertion order
Keys(mm) == [k \in 1..Len(mm) |-> mm[k].id]
KeySet(mm) == {mm[k].id : k \in 1..Len(mm)}
Entry(mm, id) == mm[CHOOSE k \in 1..Len(mm) : mm[k].id = id]
\* del monitoring_markets[id]
Del(mm, id) == SelectSeq(mm, LAMBDA e : e.id # id)

----------------------------------------------------------------------------
(* State of main() *)

VARIABLES
    pc,                    \* position in main()
    cricket_markets,       \* the list search_cricket_markets() returned
    matching_markets,      \* the filtered, sorted list
    scan_index,            \* position of the initial scan in matching_markets
    monitoring_markets,    \* the watch set: entries in dict insertion order
    alert_message,         \* the local of that name (last alert text built)
    market_ids_to_check,   \* snapshot of the keys taken at the start of a cycle
    check_index,           \* position of the poll loop in market_ids_to_check
    all_below_threshold,   \* the local of that name
    latest_market_data,    \* result of the last get_market_details call
    last_call,             \* the last send_discord_alert call: site, market, message
    alert_calls,           \* per market: alerts sent (line 509)
    resolved_calls,        \* per market: resolved notifications sent (line 601)
    cycle_calls,           \* per market: calls made since the current cycle began
    ever_monitored,        \* ids ever stored in monitoring_markets
    sleeps,                \* time.sleep calls since the last cycle began
    cycle_fetches          \* per market: get_market_details calls of line 533
                           \* since the current cycle began

(* State of search_cricket_markets() *)
VARIABLES
    search_pc,             \* position in search_cricket_markets()
    ref_index,             \* position of the loop over reference_ids
    all_markets,           \* the list of that name
    seen_ids,              \* the set of that name
    unique_markets,        \* the list of that name
    started_matches,       \* the list of that name
    dedupe_index,          \* position of the loop over all_markets
    final_markets,         \* the value returned
    in_lists,              \* per id: the number of fetched lists holding it
    detail_status          \* per id: how the detail request of line 199 ended

(* The command line and environment of main() *)
VARIABLES
    search_term,           \* the --search argument
    webhook,               \* DISCORD_WEBHOOK_URL and the state of the endpoint
    last_delivery          \* how the last send_discord_alert call went

(* Two runs of search_cricket_markets() against one data source *)
VARIABLES
    source,                \* what the Gamma API answers to each request
    run,                   \* the run under way: 1 or 2
    first_result,          \* the value the first run returned
    now                    \* current_utc_time of line 172 in the run under way

(* A call of find_match *)
VARIABLES
    find_pc,               \* position: "idle", "called", "returned"
    find_markets,          \* the markets argument
    find_term,             \* the search_term argument
    find_result            \* the value returned

(* IPLOddsAnalyzer.run_analysis *)
VARIABLES
    odds_pc,               \* position in run_analysis
    odds_data,             \* self.odds_data
    collected,             \* quotes appended by scrape_bet365 and fetch_odds_api
    df,                    \* the DataFrame of analyze_odds, one record per row
    results                \* the value analyze_odds returned

mainvars == <<pc, cricket_markets, matching_markets, scan_index, monitoring_markets,
              alert_message, market_ids_to_check, check_index, all_below_threshold,
              latest_market_data, last_call, alert_calls, resolved_calls, cycle_calls,
              ever_monitored, sleeps, cycle_fetches>>

searchvars == <<search_pc, ref_index, all_markets, seen_ids, unique_markets,
                started_matches, dedupe_index, final_markets, in_lists,
                detail_status>>

envvars == <<search_term, webhook, last_delivery>>
rerunvars == <<source, run, first_result, now>>
findvars == <<find_pc, find_markets, find_term, find_result>>
oddsvars == <<odds_pc, odds_data, collected, df, results>>

vars == <<mainvars, searchvars, envvars, rerunvars, findvars, oddsvars>>

\* what a step of main() leaves alone
notmain == <<search_term, webhook, searchvars, rerunvars, findvars, oddsvars>>
\* what a step of search_cricket_markets() leaves alone
notsearch == <<mainvars, envvars, rerunvars, findvars, oddsvars>>

\* search_cricket_markets() is not running
SearchIdle ==
    /\ search_pc = "idle"
    /\ ref_index = 1
    /\ all_markets = <<>>
    /\ seen_ids = {}
    /\ unique_markets = <<>>
    /\ started_matches = <<>>
    /\ dedupe_index = 1
    /\ final_markets = <<>>
    /\ in_lists = [id \in SearchIds |-> 0]
    /\ detail_status = [id \in SearchIds |-> "none"]

\* no second run of search_cricket_markets() is modelled
RerunIdle ==
    /\ source = [related |-> <<>>, listing |-> <<>>, starts |-> <<>>]
    /\ run = 1
    /\ first_result = <<>>
    /\ now = Now

\* find_match is not being called on its own
FindIdle ==
    /\ find_pc = "idle"
    /\ find_markets = <<>>
    /\ find_term = <<>>
    /\ find_result = <<>>

\* no IPLOddsAnalyzer is running
OddsIdle ==
    /\ odds_pc = "idle"
    /\ odds_data = <<>>
    /\ collected = 0
    /\ df = <<>>
    /\ results = RawNone

NoCall == [site |-> "none", market |-> 0, message |-> NoMessage]

\* how a call of send_discord_alert can go: the URL is unset (line 77), the
\* POST is answered 2xx, requests.post raises, raise_for_status raises
DeliveryOutcomes(w) ==
    CASE w = "unset"      -> {"unset"}
      [] w = "reliable"   -> {"sent"}
      [] w = "unreliable" -> {"sent", "Timeout", "HTTPError"}

\* requests.exceptions.RequestException and its subclasses
RequestExceptions ==
    {"RequestException", "InvalidJSONError", "JSONDecodeError", "HTTPError",
     "ConnectionError", "ProxyError", "SSLError", "Timeout", "ConnectTimeout",
     "ReadTimeout", "URLRequired", "TooManyRedirects", "MissingSchema",
     "InvalidSchema", "InvalidURL", "InvalidHeader", "InvalidProxyURL",
     "ChunkedEncodingError", "ContentDecodingError", "StreamConsumedError",
     "RetryError", "UnrewindableBodyError"}

\* BaseException and its subclasses that are not subclasses of Exception;
\* asyncio.CancelledError is one from Python 3.8 on, while
\* concurrent.futures.CancelledError is an Exception
NotExceptions == {"BaseException", "BaseExceptionGroup", "KeyboardInterrupt",
                  "SystemExit", "GeneratorExit", "asyncio.CancelledError"}

\* lines 98-101: an exception leaves send_discord_alert only if neither
\* `except RequestException` nor `except Exception` catches it; the latter
\* catches every exception but those of NotExceptions
Escapes(outcome) ==
    /\ outcome \notin {"unset", "sent"}
    /\ outcome \notin RequestExceptions
    /\ outcome \in NotExceptions

\* variant: a failed POST is sent once more
PostsRetried(outcome) ==
    CASE outcome = "unset" -> 0
      [] outcome = "sent"  -> 1
      [] OTHER             -> 2

\* lines 77-93: the number of requests.post calls of one send_discord_alert
Posts(outcome) == IF outcome = "unset" THEN 0 ELSE 1

NoDelivery == [outcome |-> "none", posts |-> 0, raised |-> FALSE]
Delivery(outcome) ==
    [outcome |-> outcome, posts |-> Posts(outcome), raised |-> Escapes(outcome)]

\* send_discord_alert(message), called at `site` while market id is processed
Send(site, id, message) ==
    /\ last_call' = [site |-> site, market |-> id, message |-> message]
    /\ cycle_calls' = [cycle_calls EXCEPT ![id] = @ + 1]
    /\ alert_calls' = IF site = "alert"
                      THEN [alert_calls EXCEPT ![id] = @ + 1] ELSE alert_calls
    /\ resolved_calls' = IF site = "resolved"
                         THEN [resolved_calls EXCEPT ![id] = @ + 1] ELSE resolved_calls
    /\ \E outcome \in DeliveryOutcomes(webhook) : last_delivery' = Delivery(outcome)

NoSend == UNCHANGED <<last_call, cycle_calls, alert_calls, resolved_calls, last_delivery>>

\* main() after search_cricket_markets() returned one of `lists`, started with
\* a search term of `terms` and a webhook state of `webhooks`
MainStarts(terms, webhooks, lists) ==
    /\ pc = "start"
    /\ search_term \in terms
    /\ webhook \in webhooks
    /\ last_delivery = NoDelivery
    /\ cricket_markets \in lists
    /\ matching_markets = <<>>
    /\ scan_index = 1
    /\ monitoring_markets = <<>>
    /\ alert_message = NoMessage
    /\ market_ids_to_check = <<>>
    /\ check_index = 1
    /\ all_below_threshold = TRUE
    /\ latest_market_data = RawNone
    /\ last_call = NoCall
    /\ alert_calls = [id \in Ids |-> 0]
    /\ resolved_calls = [id \in Ids |-> 0]
    /\ cycle_calls = [id \in Ids |-> 0]
    /\ ever_monitored = {}
    /\ sleeps = 0
    /\ cycle_fetches = [id \in Ids |-> 0]
    /\ SearchIdle
    /\ RerunIdle
    /\ FindIdle
    /\ OddsIdle

\* a run without --search, the webhook answering every POST with 2xx
Init == MainStarts({NoTerm}, {"reliable"}, DiscoveredLists)

\* lines 417-420: nothing discovered, main() returns
ReturnNoMarkets ==
    /\ pc = "start"
    /\ UNCHANGED notmain
    /\ cricket_markets = <<>>
    /\ pc' = "done"
    /\ UNCHANGED <<cricket_markets, matching_markets, scan_index, monitoring_markets,
                   alert_message, market_ids_to_check, check_index,
                   all_below_threshold, latest_market_data, ever_monitored, sleeps,
                   cycle_fetches>>
    /\ NoSend

\* lines 424-449: the markets are filtered by the search term, if any, and
\* sorted in place (newest gameStartTime first, unless the sort fails); without
\* a term, and after the fallback, matching_markets is the cricket_markets
\* list itself, so the sort orders both
FilterAndSort ==
    /\ pc = "start"
    /\ UNCHANGED notmain
    /\ cricket_markets # <<>>
    /\ \E relaxed \in BOOLEAN :
          matching_markets' = SortByStart(Filtered(cricket_markets, search_term), relaxed)
    /\ cricket_markets' = IF SameList(cricket_markets, search_term)
                          THEN matching_markets' ELSE cricket_markets
    /\ pc' = "scan"
    /\ scan_index' = 1
    /\ monitoring_markets' = <<>>
    /\ UNCHANGED <<alert_message, market_ids_to_check, check_index,
                   all_below_threshold, latest_market_data, ever_monitored, sleeps,
                   cycle_fetches>>
    /\ NoSend

\* variant: the alert is sent but the market is not stored
MonitorDropped(mm, market, r) == mm

\* lines 510-515: the market is stored in the watch set under its id
Monitor(mm, market, r) ==
    Append(mm, [id |-> market.id, question |-> market.question,
                outcomes |-> r.outcomes,
                initial_probabilities_text |-> r.text])

\* after the last market of the scan the while test of line 521 is next
AfterScan(k) == IF k > Len(matching_markets) THEN "while" ELSE "scan"

\* lines 451-515: one iteration of the initial scan that completes
ScanMarket ==
    /\ pc = "scan"
    /\ UNCHANGED notmain
    /\ scan_index <= Len(matching_markets)
    /\ LET market == matching_markets[scan_index]
           r == ScanOf(market)
       IN IF market.id \in KeySet(monitoring_markets)
          THEN /\ UNCHANGED <<monitoring_markets, alert_message, ever_monitored>>
               /\ NoSend
          ELSE /\ r.exc = "none"
               /\ IF r.high
                  THEN LET msg == AlertMessage(market.question, market.gameStartTime,
                                               r.text)
                       IN /\ alert_message' = msg
                          /\ Send("alert", market.id, msg)
                          /\ monitoring_markets' = Monitor(monitoring_markets, market, r)
                          /\ ever_monitored' =
                                 ever_monitored \cup KeySet(monitoring_markets')
                  ELSE /\ UNCHANGED <<monitoring_markets, alert_message,
                                      ever_monitored>>
                       /\ NoSend
    /\ scan_index' = scan_index + 1
    /\ pc' = AfterScan(scan_index + 1)
    /\ UNCHANGED <<cricket_markets, matching_markets, market_ids_to_check,
                   check_index, all_below_threshold, latest_market_data, sleeps,
                   cycle_fetches>>

\* lines 474, 493, 494: a TypeError, OverflowError or KeyError leaves main();
\* the handler of line 631 logs it
ScanRaise ==
    /\ pc = "scan"
    /\ UNCHANGED notmain
    /\ scan_index <= Len(matching_markets)
    /\ LET market == matching_markets[scan_index]
       IN /\ market.id \notin KeySet(monitoring_markets)
          /\ ScanOf(market).exc # "none"
    /\ pc' = "raised"
    /\ UNCHANGED <<cricket_markets, matching_markets, scan_index, monitoring_markets,
                   alert_message, market_ids_to_check, check_index,
                   all_below_threshold, latest_market_data, ever_monitored, sleeps,
                   cycle_fetches>>
    /\ NoSend

\* variant: the loop goes on only while more than one market is watched
LoopConditionOffByOne(mm) == Len(mm) > 1

\* line 521: `while monitoring_markets:`
LoopCondition(mm) == mm # <<>>

\* lines 521-525: the watch set is not empty, a poll cycle begins
CycleStart ==
    /\ pc = "while"
    /\ UNCHANGED notmain
    /\ LoopCondition(monitoring_markets)
    /\ market_ids_to_check' = Keys(monitoring_markets)
    /\ all_below_threshold' = TRUE
    /\ check_index' = 1
    /\ cycle_calls' = [id \in Ids |-> 0]
    /\ sleeps' = 0
    /\ cycle_fetches' = [id \in Ids |-> 0]
    /\ pc' = "poll"
    /\ UNCHANGED <<cricket_markets, matching_markets, scan_index, monitoring_markets,
                   alert_message, latest_market_data, last_call, alert_calls,
                   resolved_calls, ever_monitored, last_delivery>>

\* line 521: the watch set is empty, the loop ends
LoopExit ==
    /\ pc = "while"
    /\ UNCHANGED notmain
    /\ ~LoopCondition(monitoring_markets)
    /\ pc' = "summaries"
    /\ UNCHANGED <<cricket_markets, matching_markets, scan_index, monitoring_markets,
                   alert_message, market_ids_to_check, check_index,
                   all_below_threshold, latest_market_data, ever_monitored, sleeps,
                   cycle_fetches>>
    /\ NoSend

\* the market the poll loop is at
Polled == market_ids_to_check[check_index]

\* line 533: get_market_details(market_id) is called
Fetched(fetches, id) == [fetches EXCEPT ![id] = @ + 1]

\* variant: a failed fetch drops the entry
AfterFailedFetchDropped(mm, id) == Del(mm, id)

\* lines 535-538: a failed fetch leaves the watch set as it is
AfterFailedFetch(mm, id) == mm

\* lines 528-529 and 535-538: the two `continue` statements of the poll loop;
\* the entry was removed earlier in the cycle, or get_market_details gave None
PollContinue ==
    /\ pc = "poll"
    /\ UNCHANGED notmain
    /\ check_index <= Len(market_ids_to_check)
    /\ IF Polled \notin KeySet(monitoring_markets)
       THEN UNCHANGED <<latest_market_data, all_below_threshold, monitoring_markets,
                        cycle_fetches>>
       ELSE /\ latest_market_data' = RawNone
            /\ cycle_fetches' = Fetched(cycle_fetches, Polled)
            /\ all_below_threshold' = FALSE
            /\ monitoring_markets' = AfterFailedFetch(monitoring_markets, Polled)
    /\ check_index' = check_index + 1
    /\ UNCHANGED <<pc, cricket_markets, matching_markets, scan_index,
                   alert_message, market_ids_to_check, ever_monitored, sleeps>>
    /\ NoSend

\* the message of the still-high branch, line 589: the alert_message local,
\* last assigned in the initial scan
StillHighMessage(latest, text) == alert_message

\* variant: the still-high branch stores the fresh snapshot in the entry
AfterStillHighUpdated(mm, id, latest, text) ==
    [k \in 1..Len(mm) |->
        IF mm[k].id = id
        THEN [mm[k] EXCEPT !.question = latest.question,
                           !.initial_probabilities_text = text]
        ELSE mm[k]]

\* lines 586-592: the still-high branch does not touch the watch set
AfterStillHigh(mm, id, latest, text) == mm

\* lines 540-592: the fetch succeeded and some price is still above the threshold
PollStillHigh ==
    /\ pc = "poll"
    /\ UNCHANGED notmain
    /\ check_index <= Len(market_ids_to_check)
    /\ Polled \in KeySet(monitoring_markets)
    /\ \E latest \in DetailResponses(Polled) \ {RawNone} :
          LET r == PollOf(latest)
          IN /\ r.exc = "none"
             /\ r.high
             /\ latest_market_data' = latest
             /\ cycle_fetches' = Fetched(cycle_fetches, Polled)
             /\ Send("still", Polled, StillHighMessage(latest, r.text))
             /\ monitoring_markets' =
                    AfterStillHigh(monitoring_markets, Polled, latest, r.text)
    /\ all_below_threshold' = FALSE
    /\ check_index' = check_index + 1
    /\ UNCHANGED <<pc, cricket_markets, matching_markets, scan_index,
                   alert_message, market_ids_to_check, ever_monitored, sleeps>>

\* variant: the resolved branch without the del
AfterResolvedKept(mm, id) == mm

\* what the resolved branch leaves of the watch set, line 602
AfterResolved(mm, id) == Del(mm, id)

\* lines 540-584, 593-602: the fetch succeeded and no price is above the threshold
PollResolved ==
    /\ pc = "poll"
    /\ UNCHANGED notmain
    /\ check_index <= Len(market_ids_to_check)
    /\ Polled \in KeySet(monitoring_markets)
    /\ \E latest \in DetailResponses(Polled) \ {RawNone} :
          LET r == PollOf(latest)
              original_market_data == Entry(monitoring_markets, Polled)
          IN /\ r.exc = "none"
             /\ ~r.high
             /\ latest_market_data' = latest
             /\ cycle_fetches' = Fetched(cycle_fetches, Polled)
             /\ Send("resolved", Polled,
                     ResolvedMessage(latest.question,
                                     original_market_data.initial_probabilities_text,
                                     r.text))
    /\ monitoring_markets' = AfterResolved(monitoring_markets, Polled)
    /\ check_index' = check_index + 1
    /\ UNCHANGED <<pc, cricket_markets, matching_markets, scan_index, alert_message,
                   market_ids_to_check, all_below_threshold, ever_monitored, sleeps>>

\* lines 565, 579, 580: an OverflowError, TypeError or KeyError leaves main();
\* the handler of line 631 logs it
PollRaise ==
    /\ pc = "poll"
    /\ UNCHANGED notmain
    /\ check_index <= Len(market_ids_to_check)
    /\ Polled \in KeySet(monitoring_markets)
    /\ \E latest \in DetailResponses(Polled) \ {RawNone} :
          /\ PollOf(latest).exc # "none"
          /\ latest_market_data' = latest
          /\ cycle_fetches' = Fetched(cycle_fetches, Polled)
    /\ pc' = "raised"
    /\ UNCHANGED <<cricket_markets, matching_markets, scan_index, monitoring_markets,
                   alert_message, market_ids_to_check, check_index,
                   all_below_threshold, ever_monitored, sleeps>>
    /\ NoSend

\* variant: the sleep follows every cycle
AfterCycleAlwaysSleep(mm) == "sleep"

\* lines 605-609: `if monitoring_markets:` sleep, else back to the while test
AfterCycle(mm) == IF mm # <<>> THEN "sleep" ELSE "while"

\* lines 604-609: the for loop is over; sleep only if markets are left
CycleEnd ==
    /\ pc = "poll"
    /\ UNCHANGED notmain
    /\ check_index > Len(market_ids_to_check)
    /\ pc' = AfterCycle(monitoring_markets)
    /\ UNCHANGED <<cricket_markets, matching_markets, scan_index, monitoring_markets,
                   alert_message, market_ids_to_check, check_index,
                   all_below_threshold, latest_market_data, ever_monitored, sleeps,
                   cycle_fetches>>
    /\ NoSend

\* line 607: time.sleep(30)
Sleep ==
    /\ pc = "sleep"
    /\ UNCHANGED notmain
    /\ sleeps' = sleeps + 1
    /\ pc' = "while"
    /\ UNCHANGED <<cricket_markets, matching_markets, scan_index, monitoring_markets,
                   alert_message, market_ids_to_check, check_index,
                   all_below_threshold, latest_market_data, ever_monitored,
                   cycle_fetches>>
    /\ NoSend

\* lines 613-622: the final summaries are logged, main() returns
Summaries ==
    /\ pc = "summaries"
    /\ UNCHANGED notmain
    /\ pc' = "done"
    /\ UNCHANGED <<cricket_markets, matching_markets, scan_index, monitoring_markets,
                   alert_message, market_ids_to_check, check_index,
                   all_below_threshold, latest_market_data, ever_monitored, sleeps,
                   cycle_fetches>>
    /\ NoSend

Next ==
    \/ ReturnNoMarkets
    \/ FilterAndSort
    \/ ScanMarket
    \/ ScanRaise
    \/ CycleStart
    \/ LoopExit
    \/ PollContinue
    \/ PollStillHigh
    \/ PollResolved
    \/ PollRaise
    \/ CycleEnd
    \/ Sleep
    \/ Summaries

Spec == Init /\ [][Next]_vars

\* the runs that vary the search term or the webhook start from the lists
\* whose records have a price above 0.60, none above 0.60, or prices that end
\* the scan
PlainLists ==
    {markets \in DiscoveredLists :
        \A k \in 1..Len(markets) :
            <<markets[k].outcomes, markets[k].outcomePrices>> \in
                {<<RawStr(RawList(Labels)), RawStr(RawList(<<Num(65), Num(35)>>))>>,
                 <<RawStr(RawList(Labels)), RawStr(RawList(<<Num(55), Num(45)>>))>>,
                 <<RawStr(RawList(Labels)), RawNum(5)>>}}

\* runs of main() with any --search argument
TermInit == MainStarts(SearchTerms, {"reliable"}, PlainLists)
TermSpec == TermInit /\ [][Next]_vars

\* runs of main() with any state of the webhook
NotifyInit == MainStarts({NoTerm}, {"unset", "reliable", "unreliable"}, PlainLists)
NotifySpec == NotifyInit /\ [][Next]_vars

\* main() is one sequential thread: whenever a step is possible it is taken
LiveSpec == Init /\ [][Next]_vars /\ WF_vars(Next)

----------------------------------------------------------------------------
(* search_cricket_markets() *)

\* main() is at line 415, inside the call
MainWaiting ==
    /\ pc = "searching"
    /\ cricket_markets = <<>>
    /\ matching_markets = <<>>
    /\ scan_index = 1
    /\ monitoring_markets = <<>>
    /\ alert_message = NoMessage
    /\ market_ids_to_check = <<>>
    /\ check_index = 1
    /\ all_below_threshold = TRUE
    /\ latest_market_data = RawNone
    /\ last_call = NoCall
    /\ alert_calls = [id \in Ids |-> 0]
    /\ resolved_calls = [id \in Ids |-> 0]
    /\ cycle_calls = [id \in Ids |-> 0]
    /\ ever_monitored = {}
    /\ sleeps = 0
    /\ cycle_fetches = [id \in Ids |-> 0]
    /\ search_term = NoTerm
    /\ webhook = "reliable"
    /\ last_delivery = NoDelivery

\* lines 111-113
SearchInit ==
    /\ MainWaiting
    /\ search_pc = "related"
    /\ ref_index = 1
    /\ all_markets = <<>>
    /\ seen_ids = {}
    /\ unique_markets = <<>>
    /\ started_matches = <<>>
    /\ dedupe_index = 1
    /\ final_markets = <<>>
    /\ in_lists = [id \in SearchIds |-> 0]
    /\ detail_status = [id \in SearchIds |-> "none"]
    /\ RerunIdle
    /\ FindIdle
    /\ OddsIdle

\* the ids of the records of a list
IdsOf(markets) == {markets[k].id : k \in 1..Len(markets)}

\* a list was fetched: count it for every id it holds
Counted(markets) ==
    [id \in SearchIds |-> IF id \in IdsOf(markets) THEN in_lists[id] + 1
                          ELSE in_lists[id]]

\* after the last reference id the listing request of line 140 is next
AfterRelated(k) == IF k > NumReferenceIds THEN "listing" ELSE "related"

\* lines 115-130: the related-markets request answers 200 with `markets`
RelatedAnswer(markets) ==
    /\ search_pc = "related"
    /\ ref_index <= NumReferenceIds
    /\ all_markets' = all_markets \o markets
    /\ in_lists' = Counted(markets)
    /\ ref_index' = ref_index + 1
    /\ search_pc' = AfterRelated(ref_index + 1)
    /\ UNCHANGED <<seen_ids, unique_markets, started_matches, dedupe_index,
                   final_markets, detail_status>>
    /\ UNCHANGED notsearch

RelatedFound ==
    \E markets \in RecordLists(MaxRecords - Len(all_markets)) : RelatedAnswer(markets)

\* lines 124-126, 131-133: the request raises or answers another status
RelatedFailed ==
    /\ search_pc = "related"
    /\ ref_index <= NumReferenceIds
    /\ ref_index' = ref_index + 1
    /\ search_pc' = AfterRelated(ref_index + 1)
    /\ UNCHANGED <<all_markets, seen_ids, unique_markets, started_matches,
                   dedupe_index, final_markets, in_lists, detail_status>>
    /\ UNCHANGED notsearch

\* lines 140-163: the listing request answers 200 with `markets`; cricket
\* matches are kept
ListingAnswer(markets) ==
    /\ search_pc = "listing"
    /\ all_markets' = all_markets \o CricketOnly(markets)
    /\ in_lists' = Counted(markets)
    /\ search_pc' = "dedupe"
    /\ UNCHANGED <<ref_index, seen_ids, unique_markets, started_matches,
                   dedupe_index, final_markets, detail_status>>
    /\ UNCHANGED notsearch

ListingFound ==
    \E markets \in RecordLists(MaxRecords - Len(all_markets)) : ListingAnswer(markets)

\* line 142: the listing request answers another status
ListingNon200 ==
    /\ search_pc = "listing"
    /\ search_pc' = "dedupe"
    /\ UNCHANGED <<ref_index, all_markets, seen_ids, unique_markets,
                   started_matches, dedupe_index, final_markets, in_lists,
                   detail_status>>
    /\ UNCHANGED notsearch

\* lines 140, 242-244: the listing request raises; the function returns []
ListingRaise ==
    /\ search_pc = "listing"
    /\ search_pc' = "failed"
    /\ final_markets' = <<>>
    /\ UNCHANGED <<ref_index, all_markets, seen_ids, unique_markets,
                   started_matches, dedupe_index, in_lists, detail_status>>
    /\ UNCHANGED notsearch

\* line 184: `market_id in seen_ids`
AlreadySeen(id, seen) == id \in seen

\* the record the loop of line 180 is at
Current == all_markets[dedupe_index]

\* lines 180-185: the id was seen before
DedupeSkip ==
    /\ search_pc = "dedupe"
    /\ dedupe_index <= Len(all_markets)
    /\ AlreadySeen(Current.id, seen_ids)
    /\ dedupe_index' = dedupe_index + 1
    /\ UNCHANGED <<search_pc, ref_index, all_markets, seen_ids, unique_markets,
                   started_matches, final_markets, in_lists, detail_status>>
    /\ UNCHANGED notsearch

\* lines 187-195: a closed market is marked seen and left out
DedupeClosed ==
    /\ search_pc = "dedupe"
    /\ dedupe_index <= Len(all_markets)
    /\ ~AlreadySeen(Current.id, seen_ids)
    /\ Current.closed = TRUE
    /\ seen_ids' = seen_ids \cup {Current.id}
    /\ dedupe_index' = dedupe_index + 1
    /\ UNCHANGED <<search_pc, ref_index, all_markets, unique_markets,
                   started_matches, final_markets, in_lists, detail_status>>
    /\ UNCHANGED notsearch

\* lines 197-199, 228-231: the detail request raises; the market is kept
DetailRaise ==
    /\ search_pc = "dedupe"
    /\ dedupe_index <= Len(all_markets)
    /\ ~AlreadySeen(Current.id, seen_ids)
    /\ Current.closed # TRUE
    /\ seen_ids' = seen_ids \cup {Current.id}
    /\ unique_markets' = Append(unique_markets, Current)
    /\ detail_status' = [detail_status EXCEPT ![Current.id] = "raised"]
    /\ dedupe_index' = dedupe_index + 1
    /\ UNCHANGED <<search_pc, ref_index, all_markets, started_matches,
                   final_markets, in_lists>>
    /\ UNCHANGED notsearch

\* line 201: the detail request answers another status; nothing is appended
DetailNon200 ==
    /\ search_pc = "dedupe"
    /\ dedupe_index <= Len(all_markets)
    /\ ~AlreadySeen(Current.id, seen_ids)
    /\ Current.closed # TRUE
    /\ seen_ids' = seen_ids \cup {Current.id}
    /\ detail_status' = [detail_status EXCEPT ![Current.id] = "non200"]
    /\ dedupe_index' = dedupe_index + 1
    /\ UNCHANGED <<search_pc, ref_index, all_markets, unique_markets,
                   started_matches, final_markets, in_lists>>
    /\ UNCHANGED notsearch

\* lines 201-231: the detail request answers 200 with the record `detail`;
\* every key of it is written into the market (the same dict that all_markets
\* holds) and the market is sorted by its gameStartTime. A time without a UTC
\* offset parses, the comparison of line 216 raises TypeError and the handler
\* of line 228 appends the market.
DetailAnswer(detail) ==
    /\ search_pc = "dedupe"
    /\ dedupe_index <= Len(all_markets)
    /\ ~AlreadySeen(Current.id, seen_ids)
    /\ Current.closed # TRUE
    /\ LET market == Merged(Current, detail)
           start == market.gameStartTime
       IN /\ all_markets' = [all_markets EXCEPT ![dedupe_index] = market]
          /\ CASE start.t = "absent" ->
                     /\ unique_markets' = Append(unique_markets, market)
                     /\ UNCHANGED started_matches
               [] start.t = "bad" ->
                     /\ unique_markets' = Append(unique_markets, market)
                     /\ UNCHANGED started_matches
               [] start.t = "naive" ->
                     /\ unique_markets' = Append(unique_markets, market)
                     /\ UNCHANGED started_matches
               [] OTHER ->
                     /\ started_matches' =
                            IF start.v >= now THEN Append(started_matches, market)
                            ELSE started_matches
                     /\ UNCHANGED unique_markets
    /\ seen_ids' = seen_ids \cup {Current.id}
    /\ detail_status' = [detail_status EXCEPT ![Current.id] = "ok"]
    /\ dedupe_index' = dedupe_index + 1
    /\ UNCHANGED <<search_pc, ref_index, final_markets, in_lists>>
    /\ UNCHANGED notsearch

DetailFound == \E detail \in DetailRecords : DetailAnswer(detail)

\* line 235
FinalMarkets(started, unique) ==
    started \o SelectSeq(unique, LAMBDA m : m.id \notin IdsOf(started))

\* lines 233-240
SearchReturn ==
    /\ search_pc = "dedupe"
    /\ dedupe_index > Len(all_markets)
    /\ final_markets' = FinalMarkets(started_matches, unique_markets)
    /\ search_pc' = "returned"
    /\ UNCHANGED <<ref_index, all_markets, seen_ids, unique_markets,
                   started_matches, dedupe_index, in_lists, detail_status>>
    /\ UNCHANGED notsearch

SearchNext ==
    \/ RelatedFound
    \/ RelatedFailed
    \/ ListingFound
    \/ ListingNon200
    \/ ListingRaise
    \/ DedupeSkip
    \/ DedupeClosed
    \/ DetailRaise
    \/ DetailNon200
    \/ DetailFound
    \/ SearchReturn

DiscoverySpec == SearchInit /\ [][SearchNext]_vars

----------------------------------------------------------------------------
(* search_cricket_markets() run twice against one data source *)

\* upper bound on the number of records the data source holds
MaxSourceRecords == 2

\* the seconds that can pass between the two runs
Elapsed == {0, 5}

SourceRecords ==
    { SearchRecord(1, <<"I", "P", "L", " ", "1">>, <<>>, FALSE),
      SearchRecord(1, <<"I", "P", "L", " ", "1">>, <<>>, TRUE),
      SearchRecord(1, <<"V", "o", "t", "e", " ", "1">>, <<>>, FALSE),
      SearchRecord(2, <<"I", "P", "L", " ", "2">>, <<>>, FALSE) }

RECURSIVE SourceLists(_)
SourceLists(n) ==
    IF n = 0 THEN {<<>>}
    ELSE SourceLists(n - 1)
         \cup {Append(l, r) : l \in {x \in SourceLists(n - 1) : Len(x) = n - 1},
                              r \in SourceRecords}

\* the answers to k requests, n records at most in all
RECURSIVE Shares(_, _)
Shares(k, n) ==
    IF k = 0 THEN {<<>>}
    ELSE UNION {{<<l>> \o rest : rest \in Shares(k - 1, n - Len(l))}
                : l \in SourceLists(n)}

\* gameStartTime of the detail record of a market
SourceStarts == {NoStart, [t |-> "iso", v |-> Now], [t |-> "iso", v |-> Now + 10]}

\* a data source: the answer to each related-markets request, to the listing
\* request and to each detail request
Sources ==
    {[related |-> SubSeq(sh, 1, NumReferenceIds),
      listing |-> sh[NumReferenceIds + 1],
      starts |-> st] : sh \in Shares(NumReferenceIds + 1, MaxSourceRecords),
                       st \in [SearchIds -> SourceStarts]}

RerunInit ==
    /\ MainWaiting
    /\ search_pc = "related"
    /\ ref_index = 1
    /\ all_markets = <<>>
    /\ seen_ids = {}
    /\ unique_markets = <<>>
    /\ started_matches = <<>>
    /\ dedupe_index = 1
    /\ final_markets = <<>>
    /\ in_lists = [id \in SearchIds |-> 0]
    /\ detail_status = [id \in SearchIds |-> "none"]
    /\ source \in Sources
    /\ run = 1
    /\ first_result = <<>>
    /\ now = Now
    /\ FindIdle
    /\ OddsIdle

RerunRelated == ref_index <= NumReferenceIds /\ RelatedAnswer(source.related[ref_index])

RerunListing == ListingAnswer(source.listing)

RerunDetail ==
    /\ search_pc = "dedupe"
    /\ dedupe_index <= Len(all_markets)
    /\ DetailAnswer(Detail(source.starts[Current.id], FALSE))

\* variant: the identifiers seen in the first run are remembered
KeptSeen(seen) == seen

\* line 175: seen_ids = set()
FreshSeen(seen) == {}

\* the function is called again, some time after it returned
RunAgain ==
    /\ search_pc = "returned"
    /\ run = 1
    /\ run' = 2
    /\ first_result' = final_markets
    /\ \E d \in Elapsed : now' = now + d
    /\ search_pc' = "related"
    /\ ref_index' = 1
    /\ all_markets' = <<>>
    /\ seen_ids' = FreshSeen(seen_ids)
    /\ unique_markets' = <<>>
    /\ started_matches' = <<>>
    /\ dedupe_index' = 1
    /\ final_markets' = <<>>
    /\ in_lists' = [id \in SearchIds |-> 0]
    /\ detail_status' = [id \in SearchIds |-> "none"]
    /\ UNCHANGED <<source, mainvars, envvars, findvars, oddsvars>>

RerunNext ==
    \/ RerunRelated
    \/ RerunListing
    \/ DedupeSkip
    \/ DedupeClosed
    \/ RerunDetail
    \/ SearchReturn
    \/ RunAgain

RerunSpec == RerunInit /\ [][RerunNext]_vars

----------------------------------------------------------------------------
(* find_match called on its own *)

\* upper bound on the length of the markets argument
MaxFind == 2

\* records with and without slug and eventSlug
FindRecords ==
    { [id |-> 1, question |-> <<"M", "I", " ", "v", "s", " ", "C", "S", "K">>],
      [id |-> 2, question |-> <<"C", "S", "K", " ", "v", "s", " ", "M", "I">>,
       slug |-> <<>>, eventSlug |-> <<>>],
      [id |-> 3, question |-> <<"M", "a", "t", "c", "h">>, slug |-> <<"m", "i">>,
       eventSlug |-> <<"c", "s", "k">>],
      [id |-> 4, question |-> <<"R", "C", "B", " ", "v", "s", " ", "M", "I">>] }

RECURSIVE FindLists(_)
FindLists(n) ==
    IF n = 0 THEN {<<>>}
    ELSE FindLists(n - 1)
         \cup {Append(l, r) : l \in {x \in FindLists(n - 1) : Len(x) = n - 1},
                              r \in FindRecords}

FindTerms ==
    { <<"M", "I", " ", "v", "s", " ", "C", "S", "K">>,
      <<"M", "I", " ", " ", "v", "s", " ", " ", "C", "S", "K">>,
      <<"m", "i", " ", "v", "s", " ">>,
      <<"m", "i", " ", "v", "s", " ", "c", "s", "k", " ", "v", "s", " ", "d", "c">>,
      <<"c", "s", "k">>,
      <<"m", "i", " ", "c", "s", "k">>,
      <<"d", "c">> }

FindInit ==
    /\ find_pc = "called"
    /\ find_markets \in FindLists(MaxFind)
    /\ find_term \in FindTerms
    /\ find_result = <<>>
    /\ MainWaiting
    /\ SearchIdle
    /\ RerunIdle
    /\ OddsIdle

\* lines 264-290: the call returns
FindMatch ==
    /\ find_pc = "called"
    /\ find_result' = find_match(find_markets, find_term)
    /\ find_pc' = "returned"
    /\ UNCHANGED <<find_markets, find_term>>
    /\ UNCHANGED <<mainvars, envvars, searchvars, rerunvars, oddsvars>>

FindNext == FindMatch

FindSpec == FindInit /\ [][FindNext]_vars

----------------------------------------------------------------------------
(* odds.py: IPLOddsAnalyzer *)

\* floats are kept as exact fractions num/den in lowest terms, den > 0
Abs(n) == IF n < 0 THEN -n ELSE n
RECURSIVE GCD(_, _)
GCD(a, b) == IF b = 0 THEN a ELSE GCD(b, a % b)
Rat(n, d) ==
    LET g == GCD(Abs(n), Abs(d))
        sign == IF d < 0 THEN -1 ELSE 1
    IN [num |-> (sign * n) \div g, den |-> (sign * d) \div g]

\* the values of convert_to_decimal_odds and calculate_implied_probability
Float(r) == [t |-> "float", v |-> r]
NaN == [t |-> "nan"]
Raise(exception) == [t |-> "raise", exc |-> exception]

AllDigits(text) == Len(text) > 0 /\ \A k \in 1..Len(text) : IsDigit(text[k])
RECURSIVE DigitsValue(_)
DigitsValue(text) ==
    IF text = <<>> THEN 0
    ELSE 10 * DigitsValue(SubSeq(text, 1, Len(text) - 1)) + DigitValue(text[Len(text)])
RECURSIVE Power10(_)
Power10(k) == IF k = 0 THEN 1 ELSE 10 * Power10(k - 1)

\* `$` of line 53 also matches before a final newline
BeforeNewline(text) ==
    IF text # <<>> /\ text[Len(text)] = "\n" THEN SubSeq(text, 1, Len(text) - 1)
    ELSE text

\* where the text splits into digits "." digits
DecimalPoints(text) ==
    {k \in 1..Len(text) :
        /\ text[k] = "."
        /\ AllDigits(SubSeq(text, 1, k - 1))
        /\ AllDigits(SubSeq(text, k + 1, Len(text)))}

\* line 53: re.match(r'^\d+\.\d+$', odds_str)
MatchesDecimal(odds_str) == DecimalPoints(BeforeNewline(odds_str)) # {}

\* line 54: float(odds_str) of a string that matched
FloatOfDecimal(odds_str) ==
    LET text == BeforeNewline(odds_str)
        k == CHOOSE i \in DecimalPoints(text) : TRUE
        whole == SubSeq(text, 1, k - 1)
        frac == SubSeq(text, k + 1, Len(text))
    IN Rat(DigitsValue(whole) * Power10(Len(frac)) + DigitsValue(frac),
           Power10(Len(frac)))

\* the digits of an int() literal: single underscores may stand between digits
Grouped(text) ==
    /\ text # <<>>
    /\ IsDigit(text[1])
    /\ IsDigit(text[Len(text)])
    /\ \A k \in 1..Len(text) : IsDigit(text[k]) \/ text[k] = "_"
    /\ \A k \in 1..(Len(text) - 1) : ~(text[k] = "_" /\ text[k + 1] = "_")

\* int(text): whitespace around the number, a sign before it and underscores
\* between its digits are accepted.  int() takes U+001C .. U+001F for part of
\* the number, where str.strip() takes them for whitespace
IntOf(text) ==
    LET blank == Whitespace \ {"U+001C", "U+001D", "U+001E", "U+001F"}
        inner == {k \in 1..Len(text) : text[k] \notin blank}
        first == CHOOSE k \in inner : \A j \in inner : k <= j
        last == CHOOSE k \in inner : \A j \in inner : j <= k
        t == IF inner = {} THEN <<>> ELSE SubSeq(text, first, last)
        signed == t # <<>> /\ Head(t) \in {"+", "-"}
        literal == IF signed THEN Tail(t) ELSE t
        digits == SelectSeq(literal, IsDigit)
    IN IF Grouped(literal)
       THEN [exc |-> "none",
             v |-> IF signed /\ Head(t) = "-" THEN -DigitsValue(digits)
                   ELSE DigitsValue(digits)]
       ELSE [exc |-> "ValueError", v |-> 0]

\* lines 58-59: num, denom = map(int, odds_str.split('/')); 1 + (num / denom)
Fractional(odds_str) ==
    LET parts == Split(odds_str, <<"/">>)
    IN IF \E k \in 1..Len(parts) : k <= 3 /\ IntOf(parts[k]).exc # "none"
       THEN Raise("ValueError")
       ELSE IF Len(parts) # 2 THEN Raise("ValueError")
       ELSE LET num == IntOf(parts[1]).v
                denom == IntOf(parts[2]).v
            IN IF denom = 0 THEN Raise("ZeroDivisionError")
               ELSE Float(Rat(denom + num, denom))

\* line 63: 1 + (int(odds_str[1:]) / 100)
AmericanPositive(rest) ==
    LET v == IntOf(rest)
    IN IF v.exc # "none" THEN Raise(v.exc) ELSE Float(Rat(100 + v.v, 100))

\* variant: the negative quote converted by the rule of the positive one
AmericanNegativeAsPositive(rest) == AmericanPositive(rest)

\* line 65: 1 + (100 / int(odds_str[1:]))
AmericanNegative(rest) ==
    LET v == IntOf(rest)
    IN IF v.exc # "none" THEN Raise(v.exc)
       ELSE IF v.v = 0 THEN Raise("ZeroDivisionError")
       ELSE Float(Rat(v.v + 100, v.v))

\* lines 50-68
convert_to_decimal_odds(odds_str) ==
    IF MatchesDecimal(odds_str) THEN Float(FloatOfDecimal(odds_str))
    ELSE IF Contains(odds_str, <<"/">>) THEN Fractional(odds_str)
    ELSE IF odds_str # <<>> /\ Head(odds_str) = "+" THEN AmericanPositive(Tail(odds_str))
    ELSE IF odds_str # <<>> /\ Head(odds_str) = "-" THEN AmericanNegative(Tail(odds_str))
    ELSE RawNone

\* line 72: `1 / decimal_odds if decimal_odds else None`; None and 0.0 are
\* falsy, NaN is truthy and 1 / NaN is NaN
calculate_implied_probability(decimal_odds) ==
    CASE decimal_odds.t = "None" -> RawNone
      [] decimal_odds.t = "nan"  -> NaN
      [] OTHER -> IF decimal_odds.v.num = 0 THEN RawNone
                  ELSE Float(Rat(decimal_odds.v.den, decimal_odds.v.num))

\* Series.apply: a column of floats and None is a float column, None is NaN
AsSeries(column) ==
    IF \E k \in 1..Len(column) : column[k].t = "float"
    THEN [k \in 1..Len(column) |-> IF column[k].t = "None" THEN NaN ELSE column[k]]
    ELSE column

\* upper bound on the number of quotes fetch_odds_api appends
MaxApiQuotes == 2

Quote(platform, a, b) == [platform |-> platform, team_a_odds |-> a, team_b_odds |-> b]

\* lines 194-222
SampleData ==
    << Quote("Sample Bookmaker 1", <<"1", ".", "9", "0">>, <<"2", ".", "1", "0">>),
       Quote("Sample Bookmaker 2", <<"4", "/", "5">>, <<"1", "1", "/", "1", "0">>),
       Quote("Sample Bookmaker 3", <<"1", ".", "8", "5">>, <<"2", ".", "0", "5">>) >>

\* the texts a scraped page can hold as odds
OddsStrings ==
    { <<"1", ".", "9", "0">>, <<"2", ".", "0", "0">>, <<"1", ".", "0", "0">>, <<"0", ".", "5", "0">>, <<"0", ".", "0">>,
      <<"4", "/", "5">>, <<"1", "1", "/", "1", "0">>, <<"4", "/", "0">>, <<"1", ".", "5", "/", "2">>, <<"1", "/", "2", "/", "3">>,
      <<"+", "1", "5", "0">>, <<"+", "0">>, <<"+", "x">>, <<"-", "2", "0", "0">>, <<"-", "0">>,
      <<"2">>, <<"e", "v", "e", "n", "s">>, <<>> }

\* the quote scrape_bet365 appends, if any
Bet365Quotes ==
    {Quote("Bet365", a, <<"2", ".", "1", "0">>) : a \in OddsStrings}
    \cup { Quote("Bet365", <<"+", "1", "5", "0">>, <<"-", "2", "0", "0">>),
           Quote("Bet365", <<"1", ".", "9", "0">>, <<"4", "/", "0">>),
           Quote("Bet365", <<"4", "/", "5">>, <<"2">>) }

\* the quotes fetch_odds_api appends: str(price) of a JSON number
ApiQuotes ==
    { Quote("Betfair", <<"1", ".", "9">>, <<"2", ".", "1">>),
      Quote("Unibet", <<"2">>, <<"1", ".", "8">>),
      Quote("Betway", <<"1", ".", "0">>, <<"2", ".", "5">>) }

RECURSIVE ApiLists(_)
ApiLists(n) ==
    IF n = 0 THEN {<<>>}
    ELSE ApiLists(n - 1)
         \cup {Append(l, q) : l \in {x \in ApiLists(n - 1) : Len(x) = n - 1},
                              q \in ApiQuotes}

\* lines 12-26 and 300-302: a fresh analyzer, run_analysis begins
OddsInit ==
    /\ odds_pc = "scrape_bet365"
    /\ odds_data = <<>>
    /\ collected = 0
    /\ df = <<>>
    /\ results = RawNone
    /\ MainWaiting
    /\ SearchIdle
    /\ RerunIdle
    /\ FindIdle

notodds == <<mainvars, envvars, searchvars, rerunvars, findvars>>

\* lines 87-105: the first matching event with two odds elements is appended
ScrapeBet365Found ==
    /\ odds_pc = "scrape_bet365"
    /\ \E q \in Bet365Quotes : odds_data' = Append(odds_data, q)
    /\ collected' = collected + 1
    /\ odds_pc' = "fetch_odds_api"
    /\ UNCHANGED <<df, results>>
    /\ UNCHANGED notodds

\* lines 76-110: no matching event, another status code, or an exception
ScrapeBet365Nothing ==
    /\ odds_pc = "scrape_bet365"
    /\ odds_pc' = "fetch_odds_api"
    /\ UNCHANGED <<odds_data, collected, df, results>>
    /\ UNCHANGED notodds

\* lines 112-170: the quotes appended before the loops end or an exception
\* ends them
FetchOddsApi ==
    /\ odds_pc = "fetch_odds_api"
    /\ \E qs \in ApiLists(MaxApiQuotes) :
          /\ odds_data' = odds_data \o qs
          /\ collected' = collected + Len(qs)
    /\ odds_pc' = "fallback"
    /\ UNCHANGED <<df, results>>
    /\ UNCHANGED notodds

\* variant: the sample data is put in whatever was collected
AlwaysAddSample(data) == TRUE

\* line 188: `if not self.odds_data`
ShouldAddSample(data) == data = <<>>

\* lines 188-190, 194: odds_data is replaced by the sample quotes
AddSampleData ==
    /\ odds_pc = "fallback"
    /\ ShouldAddSample(odds_data)
    /\ odds_data' = SampleData
    /\ odds_pc' = "analyze_odds"
    /\ UNCHANGED <<collected, df, results>>
    /\ UNCHANGED notodds

\* line 188: quotes were collected
KeepCollected ==
    /\ odds_pc = "fallback"
    /\ ~ShouldAddSample(odds_data)
    /\ odds_pc' = "analyze_odds"
    /\ UNCHANGED <<odds_data, collected, df, results>>
    /\ UNCHANGED notodds

\* lines 234-235: the two columns of converted odds, team_a first
DecimalColumn(data, side) ==
    [k \in 1..Len(data) |->
        convert_to_decimal_odds(IF side = "a" THEN data[k].team_a_odds
                                ELSE data[k].team_b_odds)]
Raises(column) == \E k \in 1..Len(column) : column[k].t = "raise"

\* lines 231-235: every quote converts (odds_data is not empty after
\* scrape_all_platforms, so line 226 does not return)
ConvertOdds ==
    /\ odds_pc = "analyze_odds"
    /\ LET a == DecimalColumn(odds_data, "a")
           b == DecimalColumn(odds_data, "b")
       IN /\ ~Raises(a) /\ ~Raises(b)
          /\ df' = [k \in 1..Len(odds_data) |->
                       [platform |-> odds_data[k].platform,
                        team_a_odds |-> odds_data[k].team_a_odds,
                        team_b_odds |-> odds_data[k].team_b_odds,
                        team_a_decimal_odds |-> AsSeries(a)[k],
                        team_b_decimal_odds |-> AsSeries(b)[k],
                        team_a_implied_prob |-> RawNone,
                        team_b_implied_prob |-> RawNone]]
    /\ odds_pc' = "implied"
    /\ UNCHANGED <<odds_data, collected, results>>
    /\ UNCHANGED notodds

\* lines 234-235: a conversion raises; nothing in analyze_odds, run_analysis
\* or the main block catches ZeroDivisionError, and ValueError only ends the
\* program with a message
ConvertRaise ==
    /\ odds_pc = "analyze_odds"
    /\ \/ Raises(DecimalColumn(odds_data, "a"))
       \/ Raises(DecimalColumn(odds_data, "b"))
    /\ odds_pc' = "raised"
    /\ UNCHANGED <<odds_data, collected, df, results>>
    /\ UNCHANGED notodds

\* lines 238-239
ImpliedProbabilities ==
    /\ odds_pc = "implied"
    /\ LET a == AsSeries([k \in 1..Len(df) |->
                    calculate_implied_probability(df[k].team_a_decimal_odds)])
           b == AsSeries([k \in 1..Len(df) |->
                    calculate_implied_probability(df[k].team_b_decimal_odds)])
       IN df' = [k \in 1..Len(df) |->
                    [df[k] EXCEPT !.team_a_implied_prob = a[k],
                                  !.team_b_implied_prob = b[k]]]
    /\ odds_pc' = "analyzed"
    /\ UNCHANGED <<odds_data, collected, results>>
    /\ UNCHANGED notodds

\* arithmetic of the exact fractions
RatAdd(x, y) == Rat(x.num * y.den + y.num * x.den, x.den * y.den)
RatLess(x, y) == x.num * y.den < y.num * x.den
RECURSIVE RatSum(_)
RatSum(column) ==
    IF column = <<>> THEN Rat(0, 1)
    ELSE RatAdd(RatSum(Tail(column)), Head(column).v)

\* Series.mean(): the missing values are skipped; without a value left the
\* mean is NaN
Mean(column) ==
    LET present == SelectSeq(column, LAMBDA x : x.t = "float")
    IN IF present = <<>> THEN NaN
       ELSE LET sum == RatSum(present)
            IN Float(Rat(sum.num, sum.den * Len(present)))

\* lines 246-247: avg * 100; NaN stays NaN
Percent(avg) == IF avg.t = "nan" THEN NaN ELSE Float(Rat(100 * avg.v.num, avg.v.den))

\* round(pct, 2): to the nearest hundredth, a tie to the even one; NaN stays
\* NaN
Round2(pct) ==
    IF pct.t = "nan" THEN NaN
    ELSE LET scaled == Rat(100 * pct.v.num, pct.v.den)
             floor == scaled.num \div scaled.den
             twice == 2 * (scaled.num % scaled.den)
             n == IF twice < scaled.den THEN floor
                  ELSE IF twice > scaled.den THEN floor + 1
                  ELSE IF floor % 2 = 0 THEN floor ELSE floor + 1
         IN Float(Rat(n, 100))

\* line 250: avg_prob_a > avg_prob_b; a comparison with NaN is False
Greater(a, b) == a.t = "float" /\ b.t = "float" /\ RatLess(b.v, a.v)

\* lines 242-273: the averages, the predicted winner and the result
AnalyzeResult ==
    /\ odds_pc = "analyzed"
    /\ LET avg_prob_a == Mean([k \in 1..Len(df) |-> df[k].team_a_implied_prob])
           avg_prob_b == Mean([k \in 1..Len(df) |-> df[k].team_b_implied_prob])
           pct_a == Percent(avg_prob_a)
           pct_b == Percent(avg_prob_b)
           a_wins == Greater(avg_prob_a, avg_prob_b)
       IN results' = [t |-> "dict",
                      platforms_analyzed |-> Len(df),
                      team_a_win_pct |-> Round2(pct_a),
                      team_b_win_pct |-> Round2(pct_b),
                      predicted_winner |-> IF a_wins THEN "team_a" ELSE "team_b",
                      win_probability |-> Round2(IF a_wins THEN pct_a ELSE pct_b)]
    /\ odds_pc' = "returned"
    /\ UNCHANGED <<odds_data, collected, df>>
    /\ UNCHANGED notodds

OddsNext ==
    \/ ScrapeBet365Found
    \/ ScrapeBet365Nothing
    \/ FetchOddsApi
    \/ AddSampleData
    \/ KeepCollected
    \/ ConvertOdds
    \/ ConvertRaise
    \/ ImpliedProbabilities
    \/ AnalyzeResult

OddsSpec == OddsInit /\ [][OddsNext]_vars

----------------------------------------------------------------------------
(* The data as the claims read it *)

\* the sequence a raw field denotes, as it is or written as JSON: the items of
\* a list, the keys of an object or the characters of a string, <<>> when it
\* denotes none
ListIn(raw) ==
    CASE raw.t \in {"list", "dict"} -> raw.v
      [] raw.t = "str"  -> IF raw.json.t \in {"list", "dict", "string"}
                           THEN raw.json.v ELSE <<>>
      [] OTHER          -> <<>>

\* the outcome prices of a record, <<>> when some item is no number; a
\* character is the number of its digit
QuotedPrices(record) ==
    LET raw == record.outcomePrices
        items == IF raw.t = "str" /\ raw.json.t = "string"
                 THEN [k \in 1..Len(raw.json.v) |->
                          IF IsDigit(raw.json.v[k]) THEN Num(100 * DigitValue(raw.json.v[k]))
                          ELSE Text]
                 ELSE ListIn(raw)
    IN IF \A k \in 1..Len(items) : items[k].t = "num"
       THEN [k \in 1..Len(items) |-> items[k].v] ELSE <<>>

QuotedLabels(record) == ListIn(record.outcomes)

\* labels and prices are both there and of equal length
HasBreakdown(record) ==
    /\ Len(QuotedPrices(record)) > 0
    /\ Len(QuotedLabels(record)) = Len(QuotedPrices(record))

\* the (label, price) lines of a record
Breakdown(record) ==
    [k \in 1..Len(QuotedPrices(record)) |->
        <<QuotedLabels(record)[k], QuotedPrices(record)[k]>>]

PriceAbove(record) ==
    \E k \in 1..Len(QuotedPrices(record)) : QuotedPrices(record)[k] > 60

\* the records the initial scan has gone through; main() tells markets apart
\* by their id, and one market may have several records
Scanned == {matching_markets[k] : k \in 1..(scan_index - 1)}
ListedIds == {matching_markets[k].id : k \in 1..Len(matching_markets)}
\* the record of market id that the scan reads the watch entry from: the
\* first one with a breakdown and a price above 0.60, if there is one
Listed(id) ==
    LET of == {k \in 1..Len(matching_markets) : matching_markets[k].id = id}
        high == {k \in of : /\ HasBreakdown(matching_markets[k])
                             /\ PriceAbove(matching_markets[k])}
        from == IF high = {} THEN of ELSE high
    IN matching_markets[CHOOSE k \in from : \A j \in from : k <= j]

\* the texts that name market id: its question as listed or as fetched later
QuestionsOf(id) ==
    {Question(id), Renamed(id)}
    \cup {matching_markets[k].question : k \in {j \in 1..Len(matching_markets) :
                                                   matching_markets[j].id = id}}

\* the scan is over or under way and no poll cycle has begun
BeforeFirstCycle == pc \in {"scan", "while"} /\ market_ids_to_check = <<>>

----------------------------------------------------------------------------
(* C1 *)

\* C1 as stated: a filtered market is in the watch set, with exactly one
\* alert sent for it, if and only if one of its parsed outcome prices is above
\* 0.60.  While the scan runs the markets are those it has gone through,
\* afterwards all filtered markets.
C1_AddedIffPriceAbove ==
    LET records == IF pc = "scan" THEN Scanned
                   ELSE {matching_markets[k] : k \in 1..Len(matching_markets)}
    IN \A id \in {m.id : m \in records} :
           LET high == \E m \in records : m.id = id /\ PriceAbove(m)
           IN /\ alert_calls[id] = (IF high THEN 1 ELSE 0)
              /\ id \in ever_monitored <=> high
              /\ BeforeFirstCycle => (id \in KeySet(monitoring_markets) <=> high)

----------------------------------------------------------------------------
(* C2 *)

----------------------------------------------------------------------------
(* C3 *)

\* a step in which the poll of id fetched a record: the iteration completes
\* or an exception ends it
PolledOk(id) ==
    /\ pc = "poll" /\ check_index <= Len(market_ids_to_check) /\ Polled = id
    /\ id \in KeySet(monitoring_markets)
    /\ check_index' = check_index + 1 \/ pc' = "raised"
    /\ latest_market_data' # RawNone

\* a step that calls send_discord_alert while market id is processed
Notifies(id) == cycle_calls'[id] = cycle_calls[id] + 1

\* C3: a successful poll without a price above 0.60 removes the market in that
\* step and sends exactly one resolved notification; a market that is out of
\* the watch set is never notified again.
C3_ResolvedOnceThenSilent ==
    /\ [][\A id \in Ids :
            (PolledOk(id) /\ ~PriceAbove(latest_market_data')) =>
                /\ id \notin KeySet(monitoring_markets')
                /\ Notifies(id)
                /\ last_call'.site = "resolved" /\ last_call'.market = id
                /\ resolved_calls'[id] = 1]_vars
    /\ [][\A id \in ever_monitored \ KeySet(monitoring_markets) :
            /\ ~Notifies(id)
            /\ resolved_calls'[id] = resolved_calls[id]
            /\ id \notin KeySet(monitoring_markets')]_vars
    /\ [](\A id \in ever_monitored \ KeySet(monitoring_markets) :
            resolved_calls[id] = 1)

----------------------------------------------------------------------------
(* C4 *)

\* C4: after a successful poll with a price still above 0.60 the market is
\* still watched and the still-high notification carries the breakdown that
\* poll fetched.
C4_StillHighCarriesLatest ==
    (last_call.site = "still" /\ latest_market_data # RawNone
        /\ latest_market_data.id = last_call.market) =>
        /\ last_call.market \in KeySet(monitoring_markets)
        /\ last_call.message.probabilities.t = "lines"
        /\ last_call.message.probabilities.lines = Breakdown(latest_market_data)

----------------------------------------------------------------------------
(* C5 *)

\* a step in which the fetch for id failed
FetchFailed(id) ==
    /\ pc = "poll" /\ check_index <= Len(market_ids_to_check) /\ Polled = id
    /\ id \in KeySet(monitoring_markets)
    /\ check_index' = check_index + 1
    /\ latest_market_data' = RawNone

\* the poll loop has just gone past id with a failed fetch
JustFailed(id) ==
    /\ pc = "poll" /\ check_index > 1
    /\ market_ids_to_check[check_index - 1] = id
    /\ latest_market_data = RawNone

\* the poll loop is about to fetch id
AboutToFetch(id) ==
    /\ pc = "poll" /\ check_index <= Len(market_ids_to_check) /\ Polled = id
    /\ id \in KeySet(monitoring_markets)

\* C5: a failed fetch leaves the watch set and the notifications as they were,
\* and the market is fetched again; nothing counts the failures.
C5_FailedFetchRetried ==
    /\ [][\A id \in Ids :
            FetchFailed(id) =>
                /\ monitoring_markets' = monitoring_markets
                /\ ~Notifies(id)
                /\ UNCHANGED <<last_call, alert_calls, resolved_calls, cycle_calls>>]_vars
    /\ \A id \in Ids : JustFailed(id) ~> AboutToFetch(id)

----------------------------------------------------------------------------
(* C6 *)

LoopEnded == pc \in {"summaries", "done"}

\* C6: when the monitoring loop has ended the watch set is empty and every
\* market that was ever watched got exactly one resolved notification.
C6_LoopEndsEmptyAllResolved ==
    LoopEnded =>
        /\ monitoring_markets = <<>>
        /\ \A id \in ever_monitored : resolved_calls[id] = 1

\* the loop ended after two markets were watched
C6_Witness ==
    /\ pc = "done"
    /\ Cardinality(ever_monitored) >= 2
    /\ \A id \in ever_monitored : resolved_calls[id] = 1

----------------------------------------------------------------------------
(* C7 *)

\* the last fetch succeeded and all its prices are at or below 0.60
FetchedLow ==
    /\ latest_market_data # RawNone
    /\ Len(QuotedPrices(latest_market_data)) > 0
    /\ ~PriceAbove(latest_market_data)

\* C7: if from some point on every fetch succeeds with all prices at or below
\* 0.60 the loop terminates with an empty watch set; a market leaves the watch
\* set only in a poll that fetched it without a price above 0.60, and the loop
\* never ends with a market still watched.
C7_TerminatesWhenAllLow ==
    /\ (<>[]FetchedLow) => <>(pc = "done" /\ monitoring_markets = <<>>)
    /\ [][\A id \in KeySet(monitoring_markets) \ KeySet(monitoring_markets') :
            /\ PolledOk(id)
            /\ ~(HasBreakdown(latest_market_data') /\ PriceAbove(latest_market_data'))]_vars
    /\ [](LoopEnded => monitoring_markets = <<>>)

----------------------------------------------------------------------------
(* C8 *)

\* C8: the resolved notification carries the breakdown of the market's record
\* at the initial scan and the breakdown fetched by the resolving poll.
C8_ResolvedCarriesInitialAndCurrent ==
    (last_call.site = "resolved" /\ latest_market_data # RawNone
        /\ latest_market_data.id = last_call.market) =>
        /\ last_call.message.initial.t = "lines"
        /\ last_call.message.initial.lines = Breakdown(Listed(last_call.market))
        /\ HasBreakdown(latest_market_data) =>
              /\ last_call.message.current.t = "lines"
              /\ last_call.message.current.lines = Breakdown(latest_market_data)

\* a market is resolved in a cycle after the one that resolved the other market
C8_Witness ==
    /\ last_call.site = "resolved"
    /\ latest_market_data # RawNone
    /\ latest_market_data.id = last_call.market
    /\ HasBreakdown(latest_market_data)
    /\ market_ids_to_check = <<last_call.market>>
    /\ Cardinality(ever_monitored) >= 2

----------------------------------------------------------------------------
(* C9 *)

\* C9 as stated: after a successful poll of a market that stays watched, its
\* entry holds the question and the probability snapshot that poll fetched.
C9_EntryHoldsLatest ==
    (last_call.site = "still" /\ latest_market_data # RawNone
        /\ latest_market_data.id = last_call.market
        /\ last_call.market \in KeySet(monitoring_markets)) =>
        LET e == Entry(monitoring_markets, last_call.market)
        IN /\ e.question = latest_market_data.question
           /\ e.initial_probabilities_text.t = "lines"
           /\ e.initial_probabilities_text.lines = Breakdown(latest_market_data)

\* C9, amended: after every poll cycle a watch entry still holds the question
\* and the probability text recorded at the initial scan; a poll never changes
\* a stored entry.
C9_EntryHoldsInitial ==
    \A k \in 1..Len(monitoring_markets) :
        LET e == monitoring_markets[k]
        IN /\ e.id \in ListedIds
           /\ e.question = Listed(e.id).question
           /\ e.initial_probabilities_text.t = "lines"
           /\ e.initial_probabilities_text.lines = Breakdown(Listed(e.id))

\* a poll fetched a new question and new prices for a market that stays watched
C9_Witness ==
    /\ last_call.site = "still"
    /\ latest_market_data # RawNone
    /\ latest_market_data.id = last_call.market
    /\ last_call.market \in KeySet(monitoring_markets)
    /\ latest_market_data.question # Listed(last_call.market).question
    /\ Breakdown(latest_market_data) # Breakdown(Listed(last_call.market))

----------------------------------------------------------------------------
(* C10 *)

\* how often a list holds a record with this id
Occurrences(id, markets) == Cardinality({k \in 1..Len(markets) : markets[k].id = id})

\* the first record of all_markets with this id
FirstFetched(id) ==
    all_markets[CHOOSE k \in 1..Len(all_markets) :
                    /\ all_markets[k].id = id
                    /\ \A k2 \in 1..(k - 1) : all_markets[k2].id # id]

\* the first record fetched with this id was not closed (a detail request was
\* made for it), and the request raised, or answered 200 and left a
\* gameStartTime that is absent, unparsable, without a UTC offset or not before
\* the current time
PassedFilters(id) ==
    /\ id \in IdsOf(all_markets)
    /\ \/ detail_status[id] = "raised"
       \/ /\ detail_status[id] = "ok"
          /\ \/ FirstFetched(id).gameStartTime.t \in {"absent", "bad", "naive"}
             \/ FirstFetched(id).gameStartTime.v >= Now

SearchOver == search_pc \in {"returned", "failed"}

\* C10 as stated: the result holds no identifier twice, and an identifier that
\* occurs in two or more fetched lists is in the result exactly once (looked at
\* on normal returns in which every detail request raised or answered 200).
C10_InTwoListsExactlyOnce ==
    (search_pc = "returned" /\ \A id \in SearchIds : detail_status[id] # "non200") =>
        \A id \in SearchIds :
            /\ Occurrences(id, final_markets) <= 1
            /\ in_lists[id] >= 2 => Occurrences(id, final_markets) = 1

----------------------------------------------------------------------------
(* C11 *)

Range(seq) == {seq[k] : k \in 1..Len(seq)}

\* C11: with a search term supplied, the markets main() goes on with (scan,
\* watch set, summaries) are the full discovered set when find_match returns
\* none of them, and exactly the markets find_match returns otherwise.
C11_FallbackOrMatches ==
    (pc # "start" /\ search_term.given) =>
        LET found == find_match(cricket_markets, search_term.text)
            processed == IF found = <<>> THEN Range(cricket_markets) ELSE Range(found)
        IN /\ Range(matching_markets) = processed
           /\ Len(matching_markets) = Cardinality(processed)
           /\ Scanned \subseteq processed
           /\ pc \in {"while", "poll", "sleep", "summaries", "done"} =>
                  Scanned = processed
           /\ ever_monitored \subseteq {m.id : m \in processed}

\* a run whose term matched no market went through the scan and the loop with
\* both discovered markets
C11_Witness ==
    /\ pc = "done"
    /\ search_term.given
    /\ Len(cricket_markets) = 2
    /\ find_match(cricket_markets, search_term.text) = <<>>
    /\ Len(matching_markets) = 2
    /\ ever_monitored # {}

----------------------------------------------------------------------------
(* C12 *)

\* where " vs " occurs in a text
SeparatorPositions(text) ==
    {k \in 0..(Len(text) - 4) : SubSeq(text, k + 1, k + 4) = <<" ", "v", "s", " ">>}

\* the claim's matching rule for a lower-cased term: the text contains the
\* term, or the two halves of the term on either side of a " vs "
TermMatches(market, t) ==
    LET text == FindText(market)
    IN \/ Contains(text, t)
       \/ \E k \in SeparatorPositions(t) :
             /\ Contains(text, Strip(SubSeq(t, 1, k)))
             /\ Contains(text, Strip(SubSeq(t, k + 5, Len(t))))

\* the amended rule: the text contains the term, or what stands before the
\* first " vs " of the term and what stands between it and the next one (or
\* the end of the term)
FirstTwoMatch(market, t) ==
    LET text == FindText(market)
        seps == SeparatorPositions(t)
    IN \/ Contains(text, t)
       \/ /\ seps # {}
          /\ LET k1 == CHOOSE k \in seps : \A j \in seps : k <= j
                 later == {k \in seps : k >= k1 + 4}
                 k2 == IF later = {} THEN Len(t)
                       ELSE CHOOSE k \in later : \A j \in later : k <= j
             IN /\ Contains(text, Strip(SubSeq(t, 1, k1)))
                /\ Contains(text, Strip(SubSeq(t, k1 + 5, k2)))

RECURSIVE IsSubsequence(_, _)
IsSubsequence(a, b) ==
    IF a = <<>> THEN TRUE
    ELSE IF b = <<>> THEN FALSE
    ELSE IF Head(a) = Head(b) THEN IsSubsequence(Tail(a), Tail(b))
    ELSE IsSubsequence(a, Tail(b))

\* C12 as stated: find_match returns exactly the markets whose text contains
\* the lower-cased term or, for a term with " vs ", both of its trimmed halves
\* in either order; the result takes each input market at most once and keeps
\* the input order.
C12_FindMatchReturnsMatches ==
    find_pc = "returned" =>
        LET t == Lower(find_term)
        IN /\ Range(find_result) = {m \in Range(find_markets) : TermMatches(m, t)}
           /\ IsSubsequence(find_result, find_markets)
           /\ Cardinality(Range(find_markets)) = Len(find_markets) =>
                  find_result = SelectSeq(find_markets, LAMBDA m : TermMatches(m, t))

\* C12, amended: find_match returns exactly the markets whose text contains
\* the lower-cased term or, for a term with " vs ", both the trimmed part
\* before its first " vs " and the trimmed part between that and the next
\* " vs " (the second half when there is one separator), in either order;
\* the result takes each input market at most once and keeps the input order.
C12_FindMatchFirstTwoParts ==
    find_pc = "returned" =>
        LET t == Lower(find_term)
        IN /\ Range(find_result) = {m \in Range(find_markets) : FirstTwoMatch(m, t)}
           /\ IsSubsequence(find_result, find_markets)
           /\ Cardinality(Range(find_markets)) = Len(find_markets) =>
                  find_result = SelectSeq(find_markets, LAMBDA m : FirstTwoMatch(m, t))

\* a call with an "A vs B vs C" term returned a market that names A and B in
\* the other order, not C, and left out a market that names only A
C12_Witness ==
    /\ find_pc = "returned"
    /\ Cardinality(SeparatorPositions(Lower(find_term))) = 2
    /\ Len(find_result) = 1 /\ Len(find_markets) = 2
    /\ find_result[1].id = 2
    /\ ~Contains(FindText(find_result[1]), <<"d", "c">>)
    /\ find_markets[1].id = 4

----------------------------------------------------------------------------
(* C13 *)

\* both runs have returned
BothReturned == run = 2 /\ search_pc = "returned"

\* the clock went past the gameStartTime of some market between the runs
StartPassed ==
    \E id \in SearchIds :
        /\ source.starts[id].t = "iso"
        /\ source.starts[id].v >= 100
        /\ source.starts[id].v < now

\* C13 as stated: two runs against a data source that answers every request
\* the same both times return the same set of market identifiers.
C13_SameIdentifiers ==
    BothReturned => IdsOf(final_markets) = IdsOf(first_result)

\* C13, amended: two runs against such a data source return the same set of
\* market identifiers provided the current time has not gone past the
\* gameStartTime of a market between the runs; a market that starts in between
\* is returned by the first run only.
C13_SameIdentifiersSameClock ==
    BothReturned =>
        /\ ~StartPassed => IdsOf(final_markets) = IdsOf(first_result)
        /\ IdsOf(final_markets) \subseteq IdsOf(first_result)

\* the second run, later than the first, returned the same two markets
C13_Witness ==
    /\ BothReturned
    /\ now > 100
    /\ ~StartPassed
    /\ IdsOf(first_result) = {1, 2}
    /\ IdsOf(final_markets) = {1, 2}

----------------------------------------------------------------------------
(* C14 *)

\* C14: a request that fails during discovery costs only its own answer: when
\* the function is over, every non-closed market that some request delivered
\* has been taken through the detail step, and every market that passed the
\* filters is in the list returned.
C14_RequestFailuresStayLocal ==
    SearchOver =>
        \A id \in IdsOf(all_markets) :
            /\ FirstFetched(id).closed = FALSE => detail_status[id] # "none"
            /\ PassedFilters(id) => Occurrences(id, final_markets) = 1

----------------------------------------------------------------------------
(* C15 *)

\* a step in which send_discord_alert was called for id and did not deliver
FailedNotification(id) ==
    /\ Notifies(id)
    /\ last_delivery'.outcome # "sent"

\* C15: a notification that fails is posted once at most (not at all when the
\* URL is unset), nothing is raised out of send_discord_alert, and the step
\* goes on as after a delivery: an alerted market is stored in the watch set,
\* a market that is still high stays, a resolved market is removed, and the
\* scan or the poll loop moves to the next market.
C15_FailedNotificationHarmless ==
    /\ [](/\ last_delivery.posts <= 1
          /\ ~last_delivery.raised
          /\ last_delivery.outcome = "unset" => last_delivery.posts = 0
          /\ last_delivery.outcome \in {"Timeout", "HTTPError"} =>
                last_delivery.posts = 1)
    /\ [][\A id \in Ids :
            FailedNotification(id) =>
                /\ pc' # "raised"
                /\ last_call'.market = id
                /\ last_call'.site = "alert" =>
                      /\ id \in KeySet(monitoring_markets')
                      /\ alert_calls'[id] = 1
                      /\ scan_index' = scan_index + 1
                /\ last_call'.site = "still" =>
                      /\ monitoring_markets' = monitoring_markets
                      /\ all_below_threshold' = FALSE
                      /\ check_index' = check_index + 1
                /\ last_call'.site = "resolved" =>
                      /\ monitoring_markets' = Del(monitoring_markets, id)
                      /\ resolved_calls'[id] = 1
                      /\ check_index' = check_index + 1]_vars
    /\ [](LoopEnded =>
            /\ monitoring_markets = <<>>
            /\ \A id \in ever_monitored : resolved_calls[id] = 1)

\* a run ended after two markets were alerted and resolved although the last
\* notification was not delivered
C15_Witness ==
    /\ pc = "done"
    /\ last_call.site = "resolved"
    /\ last_delivery.outcome \in {"unset", "Timeout", "HTTPError"}
    /\ Cardinality(ever_monitored) >= 2

----------------------------------------------------------------------------
(* C16 *)

\* C16: outcomes / outcomePrices that are missing, of the wrong type or
\* unparsable never abort the scan or a poll cycle; the market counts as
\* having no probability data and the next market is processed.
C16_BadFieldsNeverAbort ==
    /\ pc # "raised"
    /\ \A m \in Scanned : ~HasBreakdown(m) => m.id \notin ever_monitored

----------------------------------------------------------------------------
(* C17 *)

\* the decimal digits of a number
RECURSIVE Digits(_)
Digits(n) ==
    IF n < 10 THEN <<DigitChars[n + 1]>>
    ELSE Digits(n \div 10) \o <<DigitChars[(n % 10) + 1]>>
TwoDigits(n) == <<DigitChars[(n \div 10) + 1], DigitChars[(n % 10) + 1]>>

\* the reference conversion: what a well-formed quote is worth as decimal
\* odds; empty for a text that is no well-formed quote
Reference(text) ==
    {Float(Rat(d + n, d)) : <<n, d>> \in
        {x \in (0..12) \X (1..12) : text = Digits(x[1]) \o <<"/">> \o Digits(x[2])}}
    \cup {Float(Rat(100 + v, 100)) : v \in
        {x \in 0..200 : text = <<"+">> \o Digits(x)}}
    \cup {Float(Rat(v + 100, v)) : v \in
        {x \in 1..200 : text = <<"-">> \o Digits(x)}}
    \cup {Float(Rat(100 * x[1] + x[2], 100)) : x \in
        {y \in (0..3) \X (0..99) : text = Digits(y[1]) \o <<".">> \o TwoDigits(y[2])}}
    \cup {Float(Rat(10 * x[1] + x[2], 10)) : x \in
        {y \in (0..3) \X (0..9) : text = Digits(y[1]) \o <<".">> \o Digits(y[2])}}

\* the (odds text, decimal odds, implied probability) triples of the frame
Converted ==
    {<<df[k].team_a_odds, df[k].team_a_decimal_odds, df[k].team_a_implied_prob>> :
        k \in 1..Len(df)}
    \cup {<<df[k].team_b_odds, df[k].team_b_decimal_odds, df[k].team_b_implied_prob>> :
        k \in 1..Len(df)}

\* C17: every well-formed quote is converted as the reference conversion
\* says: a decimal text to its value, "n/d" to 1 + n/d, "+v" to 1 + v/100 and
\* "-v" to 1 + 100/v.
C17_ConvertAgreesWithReference ==
    \A c \in Converted : Reference(c[1]) # {} => c[2] \in Reference(c[1])

\* one frame holds "+150" as 2.5 and "-200" as 1.5 next to a decimal quote
C17_Witness ==
    /\ odds_pc = "analyzed"
    /\ \E c1, c2, c3 \in Converted :
          /\ c1[1] = <<"+", "1", "5", "0">> /\ c1[2] = Float([num |-> 5, den |-> 2])
          /\ c2[1] = <<"-", "2", "0", "0">> /\ c2[2] = Float([num |-> 3, den |-> 2])
          /\ c3[1] = <<"1", ".", "9">> /\ c3[2] = Float([num |-> 19, den |-> 10])

----------------------------------------------------------------------------
(* C18 *)

Missing(value) == value.t \in {"None", "nan"}

\* C18: a text that is no well-formed quote converts to the no-result value,
\* and analyze_odds goes on with the other quotes: no conversion raises.
C18_MalformedGivesNoResult ==
    /\ odds_pc # "raised"
    /\ \A c \in Converted : Reference(c[1]) = {} => Missing(c[2])

----------------------------------------------------------------------------
(* C19 *)

\* C19: the implied probability of decimal odds d is 1/d when d > 1.0 and
\* missing when d <= 1.0, so a probability that is returned lies strictly
\* between 0 and 1.
C19_ImpliedProbabilityAboveOneOnly ==
    odds_pc = "analyzed" =>
        \A c \in Converted :
            /\ (c[2].t = "float" /\ c[2].v.num > c[2].v.den) =>
                  c[3] = Float([num |-> c[2].v.den, den |-> c[2].v.num])
            /\ (c[2].t = "float" /\ c[2].v.num <= c[2].v.den) => Missing(c[3])
            /\ c[3].t = "float" => (c[3].v.num > 0 /\ c[3].v.num < c[3].v.den)

----------------------------------------------------------------------------
(* C20 *)

IsSample(q) ==
    q.platform \in {"Sample Bookmaker 1", "Sample Bookmaker 2", "Sample Bookmaker 3"}

ScrapeOver == odds_pc \in {"analyze_odds", "implied", "analyzed", "returned", "raised"}

\* C20: after scrape_all_platforms odds_data is not empty; it is the three
\* sample quotes if and only if the scrape and the API collected nothing; and
\* odds_data never holds sample quotes next to collected ones.
C20_SampleOnlyWhenNothingCollected ==
    /\ ScrapeOver =>
          /\ odds_data # <<>>
          /\ odds_data = SampleData <=> collected = 0
          /\ collected > 0 => Len(odds_data) = collected
    /\ ~(/\ \E k \in 1..Len(odds_data) : IsSample(odds_data[k])
         /\ \E k \in 1..Len(odds_data) : ~IsSample(odds_data[k]))
    /\ (\E k \in 1..Len(odds_data) : IsSample(odds_data[k])) => odds_data = SampleData

\* one analysis ran on the sample quotes
C20_Witness ==
    /\ odds_pc = "analyzed"
    /\ collected = 0
    /\ odds_data = SampleData
    /\ Len(df) = 3

----------------------------------------------------------------------------
(* C21 *)

\* the average implied probability of a side over the rows of the frame
SideAverage(side) ==
    Mean([k \in 1..Len(df) |->
            IF side = "team_a" THEN df[k].team_a_implied_prob
            ELSE df[k].team_b_implied_prob])
Other(side) == IF side = "team_a" THEN "team_b" ELSE "team_a"

\* C21: the predicted winner of a returned result is a side that has an
\* average implied probability, that average is not lower than the other
\* side's, the side with the strictly higher average is the one predicted,
\* and win_probability is the winner's average as a percentage (to two places).
C21_WinnerHasHigherAverage ==
    odds_pc = "returned" =>
        LET winner == SideAverage(results.predicted_winner)
            loser == SideAverage(Other(results.predicted_winner))
        IN /\ winner.t = "float"
           /\ loser.t = "float" => ~RatLess(winner.v, loser.v)
           /\ results.win_probability = Round2(Percent(winner))
           /\ results.win_probability.t = "float"

----------------------------------------------------------------------------
(* C22 *)

\* C22: every record search_cricket_markets returns is cricket-related: a
\* keyword of the list occurs in its question, slug and eventSlug, whether the
\* record came from a related-markets request or from the listing.
C22_ReturnedAreCricket ==
    search_pc = "returned" =>
        \A k \in 1..Len(final_markets) : IsCricket(final_markets[k])

----------------------------------------------------------------------------
(* C23 *)

\* the gameStartTime of a record parses to a time before `time`
StartsBefore(market, time) ==
    market.gameStartTime.t \in {"iso", "naive"} /\ market.gameStartTime.v < time

\* C23: no returned market is flagged closed, no returned market has a
\* gameStartTime that parses to a time before the current UTC time, and every
\* market that is not closed, whose detail request answered 200 and whose
\* gameStartTime is absent, unparsable or not before the current time is
\* returned.
C23_NoClosedNoPastAllOthers ==
    search_pc = "returned" =>
        /\ \A k \in 1..Len(final_markets) :
              /\ final_markets[k].closed # TRUE
              /\ ~StartsBefore(final_markets[k], now)
        /\ \A id \in IdsOf(all_markets) :
              (/\ detail_status[id] = "ok"
               /\ FirstFetched(id).closed # TRUE
               /\ ~StartsBefore(FirstFetched(id), now))
              => id \in IdsOf(final_markets)

----------------------------------------------------------------------------
(* C24 *)

\* C24: a market that is not closed and whose detail request raised or
\* answered another status than 200 is returned, as the record the listing
\* gave.
C24_FailedDetailKeepsMarket ==
    search_pc = "returned" =>
        \A id \in IdsOf(all_markets) :
            detail_status[id] \in {"raised", "non200"} =>
                \E k \in 1..Len(final_markets) : final_markets[k] = FirstFetched(id)

----------------------------------------------------------------------------
(* C25 *)

\* the markets of the snapshot the cycle under way iterates over
Snapshot == Range(market_ids_to_check)

\* C25: a poll cycle goes over the markets that were in the watch set when it
\* began; while it runs no market is fetched or notified more than once and
\* none outside the snapshot is fetched; when the cycle is over every market
\* of the snapshot has been fetched exactly once, whatever was removed on the
\* way.
C25_CycleFetchesSnapshotOnce ==
    /\ [][(pc = "while" /\ pc' = "poll") =>
            Range(market_ids_to_check') = KeySet(monitoring_markets)]_vars
    /\ [](pc = "poll" =>
            \A id \in Ids :
                /\ cycle_fetches[id] <= 1
                /\ cycle_calls[id] <= cycle_fetches[id]
                /\ cycle_fetches[id] = 1 => id \in Snapshot)
    /\ [][(pc = "poll" /\ pc' # "poll") =>
            \A id \in Ids :
                cycle_fetches'[id] = (IF id \in Snapshot THEN 1 ELSE 0)]_vars

----------------------------------------------------------------------------
(* C26 *)

\* a poll cycle has begun at some point of the run
CycleBegun == market_ids_to_check # <<>>

\* C26: a poll cycle that is not the first begins after exactly one sleep
\* since the cycle before it began; the sleep is taken only with markets left
\* in the watch set; after a cycle that leaves the watch set empty the loop
\* ends at once, without a sleep.
C26_OneSleepBetweenCycles ==
    /\ [][(pc = "while" /\ pc' = "poll") =>
            sleeps = (IF CycleBegun THEN 1 ELSE 0)]_vars
    /\ [](pc = "sleep" => monitoring_markets # <<>>)
    /\ [][(pc = "poll" /\ pc' # "poll" /\ pc' # "raised" /\ monitoring_markets = <<>>) =>
            pc' = "while" /\ sleeps' = 0]_vars
    /\ []((pc = "while" /\ monitoring_markets = <<>>) => sleeps = 0)
    /\ [](LoopEnded => sleeps = 0)

\* a cycle removed a market and left another, the sleep was taken and the next
\* cycle is about to begin
C26_Witness ==
    /\ pc = "while"
    /\ sleeps = 1
    /\ monitoring_markets # <<>>
    /\ Len(monitoring_markets) < Len(market_ids_to_check)

----------------------------------------------------------------------------
(* C27 *)

\* the initial scan is over: the test of line 521 has been reached
LoopStarted == pc \notin {"start", "scan"}

\* the markets that were watched and were removed
Removed == ever_monitored \ KeySet(monitoring_markets)

\* C27: from the start of the monitoring loop on the watch set only loses
\* entries: every step leaves its key set a subset of what it was, and of the
\* key set at loop start; a market that got its resolved notification is not
\* watched, and a removed market is not put back, fetched or notified in any
\* later step.
C27_WatchSetNeverGrows ==
    /\ [][LoopStarted =>
            /\ KeySet(monitoring_markets') \subseteq KeySet(monitoring_markets)
            /\ ever_monitored' = ever_monitored]_vars
    /\ [](KeySet(monitoring_markets) \subseteq ever_monitored)
    /\ [](\A id \in Ids : resolved_calls[id] > 0 => id \notin KeySet(monitoring_markets))
    /\ [][LoopStarted =>
            \A id \in Removed :
                /\ id \notin KeySet(monitoring_markets')
                /\ ~Notifies(id)
                /\ cycle_fetches'[id] <= cycle_fetches[id]]_vars

\* a later cycle polls a market that is still high after another market was
\* removed
C27_Witness ==
    /\ pc = "poll" /\ check_index > Len(market_ids_to_check)
    /\ last_call.site = "still"
    /\ \E id \in Removed : resolved_calls[id] = 1 /\ id \notin Snapshot

----------------------------------------------------------------------------
(* C28 *)

\* C28: a market leaves the watch set only in a poll that fetched prices, with
\* their labels, that are all at or below 0.60; a poll that fetched a record
\* whose outcomes or outcomePrices are missing, unparsable or of different
\* lengths leaves the market watched and sends no resolved notification.
C28_RemovedOnlyOnLowPrices ==
    /\ [][\A id \in KeySet(monitoring_markets) \ KeySet(monitoring_markets') :
            /\ PolledOk(id)
            /\ HasBreakdown(latest_market_data')
            /\ ~PriceAbove(latest_market_data')]_vars
    /\ [][\A id \in Ids :
            (PolledOk(id) /\ ~HasBreakdown(latest_market_data')) =>
                /\ id \in KeySet(monitoring_markets')
                /\ resolved_calls'[id] = resolved_calls[id]]_vars

----------------------------------------------------------------------------
(* C29 *)

\* C29: a notification sent while a market is scanned or polled names the
\* question of that market, and a still-high notification carries a breakdown
\* of that market: the one of its alert or the one just fetched.
C29_NotificationAboutPolledMarket ==
    last_call.site # "none" =>
        /\ last_call.message.market \in QuestionsOf(last_call.market)
        /\ last_call.site = "still" =>
              \/ last_call.message.probabilities =
                     Entry(monitoring_markets, last_call.market).initial_probabilities_text
              \/ /\ last_call.message.probabilities.t = "lines"
                 /\ last_call.message.probabilities.lines = Breakdown(latest_market_data)

----------------------------------------------------------------------------
(* C30 *)

\* no notification has been sent in the run
NothingSent ==
    /\ last_call = NoCall
    /\ \A id \in Ids : alert_calls[id] = 0 /\ resolved_calls[id] = 0 /\ cycle_calls[id] = 0

\* C30: an alert of the initial scan is sent only before the first poll cycle
\* has begun; the final summaries are reached only from the while test with
\* an empty watch set, and logged with the watch set still empty; a run whose
\* discovery returned no markets ends at once, with no notification sent, no
\* cycle begun and nothing fetched.
C30_RunOrdering ==
    /\ [][(\E id \in Ids : alert_calls'[id] # alert_calls[id]) =>
            pc = "scan" /\ ~CycleBegun /\ market_ids_to_check' = <<>>]_vars
    /\ [](CycleBegun => pc \notin {"start", "scan"})
    /\ [][pc' = "summaries" =>
            pc = "while" /\ monitoring_markets = <<>>]_vars
    /\ [](pc = "summaries" => monitoring_markets = <<>>)
    /\ [][(pc = "summaries" /\ pc' = "done") => monitoring_markets' = <<>>]_vars
    /\ [][(pc = "start" /\ cricket_markets = <<>>) => pc' = "done"]_vars
    /\ []((pc = "done" /\ cricket_markets = <<>>) =>
            /\ NothingSent
            /\ ~CycleBegun
            /\ \A id \in Ids : cycle_fetches[id] = 0)

\* a run sent an alert for each of two markets, went through poll cycles and
\* logged the summaries after the watch set had become empty
C30_Witness ==
    /\ pc = "done"
    /\ CycleBegun
    /\ \A id \in Ids : alert_calls[id] = 1
    /\ monitoring_markets = <<>>
    /\ sleeps = 0

====
